---------------------------- MODULE Spec2Model ----------------------------
(***************************************************************************)
(* A model of the AI Match Cut generator: the face-alignment geometry of   *)
(* lib/faceAlignment (calculateEyeMetrics, alignFaceOnCanvas), the model   *)
(* readiness flag of lib/faceapi, and the FaceDetector component that      *)
(* uploads, reprocesses, removes and exports a sequence of aligned frames. *)
(*                                                                         *)
(* Numbers.  A JavaScript number is modelled as an exact fraction <<n, d>> *)
(* in lowest terms with d > 0; d = 0 stands for the non-finite values      *)
(* (<<1,0>> = Infinity, <<-1,0>> = -Infinity, <<0,0>> = NaN).  Rounding    *)
(* error of IEEE doubles is not modelled.                                  *)
(***************************************************************************)
EXTENDS Integers, Sequences, FiniteSets, TLC

-----------------------------------------------------------------------------
(* Arithmetic on JavaScript numbers *)

Abs(n) == IF n < 0 THEN -n ELSE n

Sign(n) == IF n < 0 THEN -1 ELSE IF n > 0 THEN 1 ELSE 0

RECURSIVE Gcd(_, _)
Gcd(a, b) == IF b = 0 THEN a ELSE Gcd(b, a % b)

\* the fraction n/d, d > 0, in lowest terms
Frac(n, d) == LET g == Gcd(Abs(n), d) IN <<n \div g, d \div g>>

Num(n) == <<n, 1>>

NaN == <<0, 0>>

IsFinite(a) == a[2] # 0

\* a non-finite value of the given sign (0: NaN)
NonFinite(s) == <<s, 0>>

\* (the common factor of the denominators is taken out before multiplying)
NumAdd(a, b) ==
  IF IsFinite(a) /\ IsFinite(b)
  THEN LET g == Gcd(a[2], b[2])
       IN Frac(a[1] * (b[2] \div g) + b[1] * (a[2] \div g), (a[2] \div g) * b[2])
  ELSE IF IsFinite(a) THEN b
  ELSE IF IsFinite(b) THEN a
  ELSE IF a = b THEN a ELSE NaN

NumNeg(a) == <<-a[1], a[2]>>

NumSub(a, b) == NumAdd(a, NumNeg(b))

NumMul(a, b) ==
  IF IsFinite(a) /\ IsFinite(b)
  THEN LET g == Gcd(Abs(a[1]), b[2])
           h == Gcd(Abs(b[1]), a[2])
       IN <<(a[1] \div g) * (b[1] \div h), (a[2] \div h) * (b[2] \div g)>>
  ELSE NonFinite(Sign(a[1]) * Sign(b[1]))

\* JavaScript division: x/0 is +-Infinity, 0/0 is NaN
NumDiv(a, b) ==
  IF IsFinite(a) /\ IsFinite(b)
  THEN IF b[1] = 0 THEN NonFinite(Sign(a[1]))
       ELSE NumMul(a, <<b[2] * Sign(b[1]), Abs(b[1])>>)
  ELSE IF IsFinite(b) THEN NonFinite(Sign(a[1]) * (IF b[1] < 0 THEN -1 ELSE 1))
  ELSE IF IsFinite(a) THEN Num(0)
  ELSE NaN

NumLt(a, b) == IsFinite(a) /\ IsFinite(b) /\ a[1] * b[2] < b[1] * a[2]

NumPos(a) == a[1] > 0

\* the largest r in 0..n with r*r <= n
RECURSIVE ISqrtFrom(_, _)
ISqrtFrom(n, r) == IF (r + 1) * (r + 1) > n THEN r ELSE ISqrtFrom(n, r + 1)

\* Math.sqrt on a finite number >= 0 whose root is rational (every landmark
\* set of the model is chosen so that the eye distance is rational)
NumSqrt(a) == Frac(ISqrtFrom(a[1], 0), ISqrtFrom(a[2], 0))

Pt(x, y) == [x |-> x, y |-> y]

RECURSIVE SumX(_)
SumX(ps) == IF ps = <<>> THEN Num(0) ELSE NumAdd(Num(Head(ps).x), SumX(Tail(ps)))

RECURSIVE SumY(_)
SumY(ps) == IF ps = <<>> THEN Num(0) ELSE NumAdd(Num(Head(ps).y), SumY(Tail(ps)))

-----------------------------------------------------------------------------
(* Angles.  An angle is kept as the direction it denotes, [cos, sin], with  *)
(* the unit it is expressed in; atan2(0, 0) is 0.                           *)

\* the angle measured with the y axis pointing up
Atan2YUp(dy, dx, dist) ==
  IF dist[1] = 0 THEN [cos |-> Num(1), sin |-> Num(0), unit |-> "rad"]
  ELSE [cos |-> NumDiv(dx, dist), sin |-> NumDiv(NumNeg(dy), dist), unit |-> "rad"]

Atan2(dy, dx, dist) ==
  IF dist[1] = 0 THEN [cos |-> Num(1), sin |-> Num(0), unit |-> "rad"]
  ELSE [cos |-> NumDiv(dx, dist), sin |-> NumDiv(dy, dist), unit |-> "rad"]

NegAngle(a) == [a EXCEPT !.sin = NumNeg(a.sin)]

\* angle * 180 / Math.PI
ToDegrees(a) == [a EXCEPT !.unit = "deg"]

ZeroDegrees == [cos |-> Num(1), sin |-> Num(0), unit |-> "deg"]


-----------------------------------------------------------------------------
(* lib/faceAlignment: calculateEyeMetrics *)

\* a FaceLandmarks68 value, reduced to what the code reads of it: the points
\* returned by getLeftEye() and getRightEye()
Landmarks(l, r) == [leftEye |-> l, rightEye |-> r]

\* eyes level, centres (100,200) and (200,200)
LmLevel == Landmarks(<<Pt(90, 195), Pt(110, 205)>>, <<Pt(190, 195), Pt(210, 205)>>)

\* right eye lower in the image: centres (100,200) and (160,280)
LmTiltDown == Landmarks(<<Pt(95, 200), Pt(105, 200)>>, <<Pt(160, 270), Pt(160, 290)>>)

\* right eye higher in the image: centres (100,200) and (130,160)
LmTiltUp == Landmarks(<<Pt(100, 190), Pt(100, 210)>>, <<Pt(120, 160), Pt(140, 160)>>)

\* the eye labelled right lies to the left: centres (200,200) and (100,200)
LmMirrored == Landmarks(<<Pt(190, 200), Pt(210, 200)>>, <<Pt(90, 200), Pt(110, 200)>>)

\* centres that are not lattice points and differ from the bounding-box centres:
\* (1/3, 1/3) and (10/3, 13/3)
LmThirds == Landmarks(<<Pt(0, 0), Pt(1, 0), Pt(0, 1)>>, <<Pt(3, 4), Pt(4, 4), Pt(3, 5)>>)

\* both eye centres at (110,100)
LmCoincident == Landmarks(<<Pt(100, 100), Pt(120, 100)>>, <<Pt(110, 90), Pt(110, 110)>>)

LandmarkSets == {LmLevel, LmTiltDown, LmTiltUp, LmMirrored, LmThirds, LmCoincident}

\* the centre of the box around the points of an eye
EyeCenterOfBox(eye) ==
  LET xs == {eye[i].x : i \in 1..Len(eye)}
      ys == {eye[i].y : i \in 1..Len(eye)}
      Least(s) == CHOOSE a \in s : \A b \in s : a <= b
      Greatest(s) == CHOOSE a \in s : \A b \in s : a >= b
  IN [x |-> NumDiv(Num(Least(xs) + Greatest(xs)), Num(2)),
      y |-> NumDiv(Num(Least(ys) + Greatest(ys)), Num(2))]

EyeCenter(eye) ==
  [x |-> NumDiv(SumX(eye), Num(Len(eye))), y |-> NumDiv(SumY(eye), Num(Len(eye)))]

EyeDistance(dx, dy) == NumSqrt(NumAdd(NumMul(dx, dx), NumMul(dy, dy)))

CenterPoint(l, r) ==
  [x |-> NumDiv(NumAdd(l.x, r.x), Num(2)), y |-> NumDiv(NumAdd(l.y, r.y), Num(2))]

calculateEyeMetrics(landmarks) ==
  LET leftEyeCenter == EyeCenter(landmarks.leftEye)
      rightEyeCenter == EyeCenter(landmarks.rightEye)
      dx == NumSub(rightEyeCenter.x, leftEyeCenter.x)
      dy == NumSub(rightEyeCenter.y, leftEyeCenter.y)
      eyeDistance == EyeDistance(dx, dy)
  IN [leftEyeCenter |-> leftEyeCenter,
      rightEyeCenter |-> rightEyeCenter,
      eyeDistance |-> eyeDistance,
      angle |-> Atan2(dy, dx, eyeDistance),
      centerPoint |-> CenterPoint(leftEyeCenter, rightEyeCenter)]

-----------------------------------------------------------------------------
(* The 2-D canvas context: its current transformation matrix               *)
(* [a, b, c, d, e, f] maps (x, y) to (a*x + c*y + e, b*x + d*y + f).  Each *)
(* transformation method multiplies the matrix on the right, and returns   *)
(* without doing anything when an argument is infinite or NaN.             *)

Matrix(a, b, c, d, e, f) == [a |-> a, b |-> b, c |-> c, d |-> d, e |-> e, f |-> f]

Identity == Matrix(Num(1), Num(0), Num(0), Num(1), Num(0), Num(0))

MatMul(m, n) ==
  Matrix(NumAdd(NumMul(m.a, n.a), NumMul(m.c, n.b)),
         NumAdd(NumMul(m.b, n.a), NumMul(m.d, n.b)),
         NumAdd(NumMul(m.a, n.c), NumMul(m.c, n.d)),
         NumAdd(NumMul(m.b, n.c), NumMul(m.d, n.d)),
         NumAdd(NumAdd(NumMul(m.a, n.e), NumMul(m.c, n.f)), m.e),
         NumAdd(NumAdd(NumMul(m.b, n.e), NumMul(m.d, n.f)), m.f))

CtxTranslate(m, tx, ty) ==
  IF IsFinite(tx) /\ IsFinite(ty)
  THEN MatMul(m, Matrix(Num(1), Num(0), Num(0), Num(1), tx, ty))
  ELSE m

CtxRotate(m, angle) ==
  MatMul(m, Matrix(angle.cos, angle.sin, NumNeg(angle.sin), angle.cos, Num(0), Num(0)))

CtxScale(m, sx, sy) ==
  IF IsFinite(sx) /\ IsFinite(sy)
  THEN MatMul(m, Matrix(sx, Num(0), Num(0), sy, Num(0), Num(0)))
  ELSE m

\* where the matrix sends a point of the drawn image
Apply(m, p) ==
  [x |-> NumAdd(NumAdd(NumMul(m.a, p.x), NumMul(m.c, p.y)), m.e),
   y |-> NumAdd(NumAdd(NumMul(m.b, p.x), NumMul(m.d, p.y)), m.f)]

-----------------------------------------------------------------------------
(* lib/faceAlignment: alignFaceOnCanvas *)

\* an option that the caller left out
Undefined == <<>>

AlignFaceOptions(cs, ted, tey, sf) ==
  [canvasSize |-> cs, targetEyeDistance |-> ted, targetEyeY |-> tey, scaleFactor |-> sf]

DefaultCanvasSize == 500

DefaultTargetEyeDistance == 140

DefaultScaleFactor == 1

\* 0.4 of the default canvas size, whatever canvas size is in effect
DefaultTargetEyeYOfDefault(canvasSize) == NumMul(Num(DefaultCanvasSize), Frac(4, 10))

\* canvasSize * 0.4
DefaultTargetEyeY(canvasSize) == NumMul(canvasSize, Frac(4, 10))

\* the destructuring of the options: a default replaces an option only when
\* the option is undefined
ResolveOptions(options) ==
  LET canvasSize == IF options.canvasSize = Undefined
                    THEN Num(DefaultCanvasSize) ELSE options.canvasSize
  IN [canvasSize |-> canvasSize,
      targetEyeDistance |-> IF options.targetEyeDistance = Undefined
                            THEN Num(DefaultTargetEyeDistance)
                            ELSE options.targetEyeDistance,
      targetEyeY |-> IF options.targetEyeY = Undefined
                     THEN DefaultTargetEyeY(canvasSize) ELSE options.targetEyeY,
      scaleFactor |-> IF options.scaleFactor = Undefined
                      THEN Num(DefaultScaleFactor) ELSE options.scaleFactor]

White == "#ffffff"

\* a canvas whose width and height were assigned w and h, filled with a
\* background, on which one image has been drawn under the transformation m
Canvas(w, h, bg, image, m) ==
  [kind |-> "canvas", width |-> w, height |-> h, background |-> bg, image |-> image,
   transform |-> m]

\* an exception
Thrown(message) == [kind |-> "thrown", message |-> message]

IsThrown(v) == v.kind = "thrown"

\* (targetEyeDistance / metrics.eyeDistance) * scaleFactor
AlignScale(metrics, cfg) ==
  NumMul(NumDiv(cfg.targetEyeDistance, metrics.eyeDistance), cfg.scaleFactor)

\* rotating by the angle of the eye line instead of against it
AlignRotationSameSense(metrics) == metrics.angle

\* the angle given to ctx.rotate
AlignRotation(metrics) == NegAngle(metrics.angle)

\* the transformation in effect when the image is drawn
AlignTransform(metrics, cfg) ==
  LET scale == AlignScale(metrics, cfg)
      targetCenter == [x |-> NumDiv(cfg.canvasSize, Num(2)), y |-> cfg.targetEyeY]
      m1 == CtxTranslate(Identity, targetCenter.x, targetCenter.y)
      m2 == CtxRotate(m1, AlignRotation(metrics))
      m3 == CtxScale(m2, scale, scale)
  IN CtxTranslate(m3, NumNeg(metrics.centerPoint.x), NumNeg(metrics.centerPoint.y))

\* ctx is what canvas.getContext('2d') returns: TRUE for a context, FALSE for null
alignFaceOnCanvas(image, landmarks, options, ctx) ==
  LET cfg == ResolveOptions(options)
      metrics == calculateEyeMetrics(landmarks)
  IN IF ~ctx THEN Thrown("Could not get canvas context")
     ELSE Canvas(cfg.canvasSize, cfg.canvasSize, White, image,
                 AlignTransform(metrics, cfg))

-----------------------------------------------------------------------------
(* State *)

VARIABLES
  images,             \* useState: the sequence of ProcessedImage entries
  isLoading,          \* useState
  error,              \* useState: the message shown to the user
  isProductMode,      \* useState
  zoomLevel,          \* useState: the eye distance selected with the slider
  processedWithZoom,  \* useState: the zoom level recorded at the last processing
  aspectRatio,        \* useState
  frameDuration,      \* useState: milliseconds per frame
  exportFormat,       \* useState
  exportResolution,   \* useState
  isGeneratingGif,    \* useState
  gifProgress,        \* useState
  isGeneratingVideo,  \* useState
  videoProgress,      \* useState
  isModelsLoading,    \* useState
  modelsLoaded,       \* lib/faceapi: the module-level flag
  isOpenCVLoading,    \* useState
  isOpenCVLoaded,     \* lib/opencv: the module-level flag
  uploads,            \* the handleFileUpload calls that are suspended at an await
  reprocs,            \* the reprocessWithNewZoom calls that are suspended at an await
  gif,                \* the GIF encoder that is rendering, if any
  video,              \* the video recording that is running, if any
  pendingRender,      \* the render React has scheduled but not committed, if any
  revoked,            \* the object URLs given to URL.revokeObjectURL
  nextFile,           \* the number of object URLs created for uploaded files
  nReprocess,         \* the number of reprocessWithNewZoom calls that reached the map
  lastFile,           \* what loadImage and the detector gave in the step just taken
  alignCall,          \* a library function called, or two frames rendered, on
                      \* its own: arguments and result
  fitCall,            \* a fit of one frame into an export canvas on its own
  heap                \* the rasters as objects: what each allocated canvas holds

settings == <<isProductMode, zoomLevel, aspectRatio, frameDuration, exportFormat,
              exportResolution>>

exportState == <<isGeneratingGif, gifProgress, isGeneratingVideo, videoProgress, gif, video>>

loaders == <<isModelsLoading, modelsLoaded, isOpenCVLoading, isOpenCVLoaded>>

vars == <<images, isLoading, error, processedWithZoom, settings, exportState, loaders,
          uploads, reprocs, pendingRender, revoked, nextFile, nReprocess, lastFile,
          alignCall, fitCall, heap>>

-----------------------------------------------------------------------------
(* Bounds and the values the user can choose *)

\* object URLs created in one run (files uploaded)
MaxFiles == 3

\* reprocessWithNewZoom calls in one run
MaxReprocess == 2

\* files selected in one upload
MaxBatch == 3

\* calls suspended at an await at the same time
MaxInFlight == 2

\* the zoom levels used (the slider offers 80..240 in steps of 10)
ZoomLevels == {100, 140, 200}

AspectRatios == {"1:1", "9:16"}

FrameDurations == {200, 500}

ExportResolutions == {500, 720}

\* the natural sizes of the uploaded pictures
ImageSizes == {<<400, 300>>}

\* what the detector may return for a picture: a face with landmarks, or nothing
SpecLandmarks == {LmTiltUp, LmCoincident}

\* the detector's answers: a face with its landmarks, no face, an exception
Face(landmarks) == [kind |-> "face", landmarks |-> landmarks]

NoFace == [kind |-> "undefined"]

DetectorThrows == [kind |-> "throws"]

DetectorAnswers == {Face(l) : l \in SpecLandmarks} \cup {NoFace, DetectorThrows}

\* what loadImage resolves to, or its rejection
Image(url, size) == [kind |-> "image", url |-> url, width |-> size[1], height |-> size[2]]

LoadError == [kind |-> "error"]

\* a canvas that is null
Null == [kind |-> "null"]

\* an errorMessage that is absent
NoMessage == ""

NoExport == [kind |-> "none"]

NoRender == [kind |-> "none"]

NoCall == [kind |-> "none"]

-----------------------------------------------------------------------------
(* FaceDetector: helpers *)

\* Math.round of a number >= 0
Round(a) == (2 * a[1] + a[2]) \div (2 * a[2])

BaseSize == 500

getCanvasDimensions(ratio, baseSize) ==
  CASE ratio = "1:1" -> [width |-> baseSize, height |-> baseSize]
    [] ratio = "9:16" -> [width |-> Round(Frac(baseSize * 9, 16)), height |-> baseSize]
    [] ratio = "16:9" -> [width |-> baseSize, height |-> Round(Frac(baseSize * 9, 16))]
    [] ratio = "4:5" -> [width |-> Round(Frac(baseSize * 4, 5)), height |-> baseSize]
    [] OTHER -> [width |-> baseSize, height |-> baseSize]

\* ctx.drawImage(source, dx, dy, dw, dh) on a fresh w x h canvas filled white:
\* the source canvas is scaled into the rectangle (dx, dy, dw, dh)
DrawCanvasInto(w, h, source, dx, dy, dw, dh) ==
  Canvas(Num(w), Num(h), White, source.image,
         MatMul(Matrix(NumDiv(dw, source.width), Num(0), Num(0),
                       NumDiv(dh, source.height), dx, dy),
                source.transform))

\* the canvas of the selected aspect ratio with the aligned square centred in it
FinalCanvas(squareCanvas, dims) ==
  LET offsetX == Frac(dims.width - dims.height, 2)
      offsetY == Frac(dims.height - dims.width, 2)
  IN IF dims.width > dims.height
     THEN DrawCanvasInto(dims.width, dims.height, squareCanvas,
                         offsetX, Num(0), Num(dims.height), Num(dims.height))
     ELSE IF dims.height > dims.width
     THEN DrawCanvasInto(dims.width, dims.height, squareCanvas,
                         Num(0), offsetY, Num(dims.width), Num(dims.width))
     ELSE DrawCanvasInto(dims.width, dims.height, squareCanvas,
                         Num(0), Num(0), Num(dims.width), Num(dims.height))

ProductZoomBase == 140

\* Product Mode: the centred square crop of the picture, stretched over the canvas
ProductCanvas(img, zoom, dims) ==
  LET zoomFactor == Frac(zoom, ProductZoomBase)
      minSide == IF img.width < img.height THEN img.width ELSE img.height
      cropSize == NumDiv(Num(minSide), zoomFactor)
      cropX == NumDiv(NumSub(Num(img.width), cropSize), Num(2))
      cropY == NumDiv(NumSub(Num(img.height), cropSize), Num(2))
      sx == NumDiv(Num(dims.width), cropSize)
      sy == NumDiv(Num(dims.height), cropSize)
  IN Canvas(Num(dims.width), Num(dims.height), White, img,
            Matrix(sx, Num(0), Num(0), sy,
                   NumNeg(NumMul(cropX, sx)), NumNeg(NumMul(cropY, sy))))

ProcessedImage(id, url, canvas, angle, hasError, msg) ==
  [id |-> id, originalUrl |-> url, alignedCanvas |-> canvas, angle |-> angle,
   hasError |-> hasError, errorMessage |-> msg]

\* an entry with an error text and no raster that is not marked as failed
FailedImageUnmarked(id, url, msg) == ProcessedImage(id, url, Null, ZeroDegrees, FALSE, msg)

FailedImage(id, url, msg) == ProcessedImage(id, url, Null, ZeroDegrees, TRUE, msg)

\* an entry with a raster that is marked as failed
AlignedImageMarkedFailed(id, url, canvas, angle) ==
  ProcessedImage(id, url, canvas, angle, TRUE, NoMessage)

AlignedImage(id, url, canvas, angle) ==
  ProcessedImage(id, url, canvas, angle, FALSE, NoMessage)

AlignedSquareSize == 500

\* options that leave the eye distance to its default
ComponentAlignOptionsDefaultZoom(zoom) ==
  AlignFaceOptions(Num(AlignedSquareSize), Undefined, Undefined, Undefined)

\* the options the component passes to alignFaceOnCanvas
ComponentAlignOptions(zoom) ==
  AlignFaceOptions(Num(AlignedSquareSize), Num(zoom), Undefined, Undefined)

\* lib/faceapi detectSingleFace: throws before calling the detector when the
\* models are not loaded, otherwise returns the detector's answer
detectSingleFace(loaded, answer) ==
  IF ~loaded THEN Thrown("Face-api models not loaded. Call loadFaceApiModels() first.")
  ELSE IF answer = DetectorThrows THEN Thrown("detection failed")
  ELSE answer

\* whether detectSingleFace reaches the detector
CallsDetector(loaded) == loaded

\* a detection function that does not look at the flag
detectAllFacesUnguarded(loaded, answer) ==
  IF answer = DetectorThrows THEN Thrown("detection failed") ELSE answer

\* detectAllFaces: the faces the detector finds, when the models are loaded
detectAllFaces(loaded, answer) ==
  IF ~loaded THEN Thrown("Face-api models not loaded. Call loadFaceApiModels() first.")
  ELSE IF answer = DetectorThrows THEN Thrown("detection failed")
  ELSE answer

\* the faces of one picture
Faces(landmarks) == [kind |-> "faces", landmarks |-> landmarks]

IsValid(img) == img.alignedCanvas # Null /\ ~img.hasError

ValidImages(imgs) == SelectSeq(imgs, IsValid)

\* validImagesCount
ValidImagesCount(imgs) == Len(SelectSeq(imgs, LAMBDA img : ~img.hasError))

-----------------------------------------------------------------------------
(* FaceDetector: handleFileUpload *)

\* the entry pushed for one image file: `load` is what loadImage gave, `answer`
\* the detector's answer, the rest the values the handler closed over
UploadEntry(url, load, answer, product, zoom, ratio, loaded) ==
  LET id == <<url, 0>>
      dims == getCanvasDimensions(ratio, BaseSize)
      detection == detectSingleFace(loaded, answer)
  IN IF load = LoadError THEN FailedImage(id, url, "Error processing image")
     ELSE IF product
     THEN AlignedImage(id, url, ProductCanvas(load, zoom, dims), ZeroDegrees)
     ELSE IF IsThrown(detection) THEN FailedImage(id, url, "Error processing image")
     ELSE IF detection.kind # "face" THEN FailedImage(id, url, "No face detected")
     ELSE LET metrics == calculateEyeMetrics(detection.landmarks)
              squareCanvas == alignFaceOnCanvas(load, detection.landmarks,
                                                ComponentAlignOptions(zoom), TRUE)
          IN IF IsThrown(squareCanvas)
             THEN FailedImage(id, url, "Error processing image")
             ELSE AlignedImage(id, url, FinalCanvas(squareCanvas, dims),
                               ToDegrees(metrics.angle))

InFlight == Cardinality(uploads) + Cardinality(reprocs)

RECURSIVE SumLeft(_)
SumLeft(us) ==
  IF us = {} THEN 0 ELSE LET u == CHOOSE v \in us : TRUE IN u.left + SumLeft(us \ {u})

\* the MIME types of the files the user may select
FileTypes == {"image/png", "text/plain"}

IsImageFile(type) == type = "image/png"

\* the selections of the file input; the change event may carry no file
FileLists == UNION {[1..n -> FileTypes] : n \in 0..MaxBatch}

UploadEnabled == ~isModelsLoading /\ ~isLoading /\ ~(isProductMode /\ isOpenCVLoading)

\* a handler that takes every selected file for an image
handleFileUploadUnfiltered(files) ==
  LET n == Len(files)
  IN /\ UploadEnabled
     /\ IF n = 0
        THEN UNCHANGED <<error, isLoading, nextFile, uploads>>
        ELSE /\ nextFile + SumLeft(uploads) + n <= MaxFiles
             /\ InFlight < MaxInFlight
             /\ error' = ""
             /\ isLoading' = TRUE
             /\ nextFile' = nextFile + 1
             /\ uploads' = uploads \cup
                  {[url |-> nextFile + 1, left |-> n - 1, count |-> n,
                    newImages |-> <<>>, zoomLevel |-> zoomLevel,
                    aspectRatio |-> aspectRatio, isProductMode |-> isProductMode]}
     /\ lastFile' = NoCall
     /\ UNCHANGED <<images, processedWithZoom, settings, exportState, loaders, reprocs,
                    pendingRender, revoked, nReprocess, alignCall, fitCall, heap>>

\* the handler up to its first await: without a file it returns; the files
\* that are not images are filtered out; with no image file left an error is
\* set, otherwise the object URL of the first file is created and its picture
\* is being loaded
handleFileUpload(files) ==
  LET imageFiles == SelectSeq(files, IsImageFile)
      n == Len(imageFiles)
  IN /\ UploadEnabled
     /\ IF Len(files) = 0
        THEN UNCHANGED <<error, isLoading, nextFile, uploads>>
        ELSE IF n = 0
        THEN /\ error' = "Please upload at least one image file"
             /\ UNCHANGED <<isLoading, nextFile, uploads>>
        ELSE /\ nextFile + SumLeft(uploads) + n <= MaxFiles
             /\ InFlight < MaxInFlight
             /\ error' = ""
             /\ isLoading' = TRUE
             /\ nextFile' = nextFile + 1
             /\ uploads' = uploads \cup
                  {[url |-> nextFile + 1, left |-> n - 1, count |-> n,
                    newImages |-> <<>>, zoomLevel |-> zoomLevel,
                    aspectRatio |-> aspectRatio, isProductMode |-> isProductMode]}
     /\ lastFile' = NoCall
     /\ UNCHANGED <<images, processedWithZoom, settings, exportState, loaders, reprocs,
                    pendingRender, revoked, nReprocess, alignCall, fitCall, heap>>

\* what happened to one picture: who processed it, what loadImage gave and
\* what the detector answered, if it was called
FileStep(url, caller, load, answer, called) ==
  [kind |-> "file", url |-> url, caller |-> caller, load |-> load.kind,
   detector |-> IF called THEN answer ELSE NoCall]

\* an upload that appends every entry to the sequence as soon as it is made
UploadFileEntryByEntry(u, load, answer) ==
  LET called == load # LoadError /\ ~u.isProductMode /\ CallsDetector(modelsLoaded)
      entry == UploadEntry(u.url, load, answer, u.isProductMode, u.zoomLevel,
                           u.aspectRatio, modelsLoaded)
  IN /\ u \in uploads
     /\ ~called => answer = NoFace
     /\ lastFile' = FileStep(u.url, "upload", load, answer, called)
     /\ images' = Append(images, entry)
     /\ IF u.left > 0
        THEN /\ uploads' = (uploads \ {u}) \cup
                  {[u EXCEPT !.url = nextFile + 1, !.left = u.left - 1]}
             /\ nextFile' = nextFile + 1
             /\ UNCHANGED <<processedWithZoom, isLoading>>
        ELSE /\ uploads' = uploads \ {u}
             /\ processedWithZoom' = u.zoomLevel
             /\ isLoading' = FALSE
             /\ UNCHANGED nextFile
     /\ UNCHANGED <<error, settings, exportState, loaders, reprocs, pendingRender,
                    revoked, nReprocess, alignCall, fitCall, heap>>

\* an upload that puts its entries before the frames of the sequence
UploadFilePrepending(u, load, answer) ==
  LET called == load # LoadError /\ ~u.isProductMode /\ CallsDetector(modelsLoaded)
      entry == UploadEntry(u.url, load, answer, u.isProductMode, u.zoomLevel,
                           u.aspectRatio, modelsLoaded)
      newImages == Append(u.newImages, entry)
  IN /\ u \in uploads
     /\ ~called => answer = NoFace
     /\ lastFile' = FileStep(u.url, "upload", load, answer, called)
     /\ IF u.left > 0
        THEN /\ uploads' = (uploads \ {u}) \cup
                  {[u EXCEPT !.url = nextFile + 1, !.left = u.left - 1,
                             !.newImages = newImages]}
             /\ nextFile' = nextFile + 1
             /\ UNCHANGED <<images, processedWithZoom, isLoading>>
        ELSE /\ uploads' = uploads \ {u}
             /\ images' = newImages \o images
             /\ processedWithZoom' = u.zoomLevel
             /\ isLoading' = FALSE
             /\ UNCHANGED nextFile
     /\ UNCHANGED <<error, settings, exportState, loaders, reprocs, pendingRender,
                    revoked, nReprocess, alignCall, fitCall, heap>>

\* one file of the batch is loaded, detected and aligned, and the loop goes on
\* to the next file; after the last file the new entries are appended, the
\* zoom level is recorded and the loading flag is reset
UploadFile(u, load, answer) ==
  LET called == load # LoadError /\ ~u.isProductMode /\ CallsDetector(modelsLoaded)
      entry == UploadEntry(u.url, load, answer, u.isProductMode, u.zoomLevel,
                           u.aspectRatio, modelsLoaded)
      newImages == Append(u.newImages, entry)
  IN /\ u \in uploads
     /\ ~called => answer = NoFace
     /\ lastFile' = FileStep(u.url, "upload", load, answer, called)
     /\ IF u.left > 0
        THEN /\ uploads' = (uploads \ {u}) \cup
                  {[u EXCEPT !.url = nextFile + 1, !.left = u.left - 1,
                             !.newImages = newImages]}
             /\ nextFile' = nextFile + 1
             /\ UNCHANGED <<images, processedWithZoom, isLoading>>
        ELSE /\ uploads' = uploads \ {u}
             /\ images' = images \o newImages
             /\ processedWithZoom' = u.zoomLevel
             /\ isLoading' = FALSE
             /\ UNCHANGED nextFile
     /\ UNCHANGED <<error, settings, exportState, loaders, reprocs, pendingRender,
                    revoked, nReprocess, alignCall, fitCall, heap>>

-----------------------------------------------------------------------------
(* FaceDetector: removeImage, clearAll, the mode buttons *)

removeImage(id) ==
  /\ \E i \in 1..Len(images) : images[i].id = id
  /\ images' = SelectSeq(images, LAMBDA img : img.id # id)
  /\ lastFile' = NoCall
  /\ UNCHANGED <<isLoading, error, processedWithZoom, settings, exportState, loaders,
                 uploads, reprocs, pendingRender, revoked, nextFile, nReprocess,
                 alignCall, fitCall, heap>>

OriginalUrls(imgs) == {imgs[i].originalUrl : i \in 1..Len(imgs)}

\* the body of clearAll
ClearAllEffect ==
  /\ revoked' = revoked \cup OriginalUrls(images)
  /\ images' = <<>>
  /\ error' = ""

\* the Clear All button, shown while the sequence is not empty
clearAll ==
  /\ Len(images) > 0
  /\ ~isGeneratingGif /\ ~isGeneratingVideo
  /\ ClearAllEffect
  /\ lastFile' = NoCall
  /\ UNCHANGED <<isLoading, processedWithZoom, settings, exportState, loaders, uploads,
                 reprocs, pendingRender, nextFile, nReprocess, alignCall, fitCall, heap>>

\* the Face Mode and Product Mode buttons; confirm is the user's answer to
\* window.confirm, asked when the sequence is not empty.  Entering Product
\* Mode starts loadOpenCV unless OpenCV is ready.
SwitchMode(product, confirm) ==
  /\ ~isLoading /\ ~isGeneratingGif /\ ~isGeneratingVideo
  /\ isProductMode # product
  /\ Len(images) > 0 => confirm
  /\ IF Len(images) > 0 THEN ClearAllEffect ELSE UNCHANGED <<revoked, images, error>>
  /\ isProductMode' = product
  /\ isOpenCVLoading' = IF product /\ ~isOpenCVLoaded THEN TRUE ELSE isOpenCVLoading
  /\ lastFile' = NoCall
  /\ UNCHANGED <<isLoading, processedWithZoom, zoomLevel, aspectRatio, frameDuration,
                 exportFormat, exportResolution, exportState, isModelsLoading,
                 modelsLoaded, isOpenCVLoaded, uploads, reprocs, pendingRender,
                 nextFile, nReprocess, alignCall, fitCall, heap>>

\* lib/opencv loadOpenCV: the timer fires, the flag is set and the promise resolves
OpenCVLoaded ==
  /\ isOpenCVLoading
  /\ isOpenCVLoaded' = TRUE
  /\ isOpenCVLoading' = FALSE
  /\ lastFile' = NoCall
  /\ UNCHANGED <<images, isLoading, error, processedWithZoom, settings, exportState,
                 isModelsLoading, modelsLoaded, uploads, reprocs, pendingRender,
                 revoked, nextFile, nReprocess, alignCall, fitCall, heap>>

\* the effect run on mount: loadFaceApiModels succeeds or throws
LoadModels(ok) ==
  /\ isModelsLoading
  /\ isModelsLoading' = FALSE
  /\ modelsLoaded' = (modelsLoaded \/ ok)
  /\ error' = IF ok THEN error ELSE "Failed to load face detection models"
  /\ lastFile' = NoCall
  /\ UNCHANGED <<images, isLoading, processedWithZoom, settings, exportState,
                 isOpenCVLoading, isOpenCVLoaded, uploads, reprocs, pendingRender,
                 revoked, nextFile, nReprocess, alignCall, fitCall, heap>>

-----------------------------------------------------------------------------
(* FaceDetector: reprocessWithNewZoom *)

\* a callback that returns every entry as it was
ReprocessedImageKept(img, load, answer, no, product, useZoom, ratio, loaded) == img

\* a callback that records no angle for the frame it renders
ReprocessedImageWithoutAngle(img, load, answer, no, product, useZoom, ratio, loaded) ==
  LET detection == detectSingleFace(loaded, answer)
  IN IF load = LoadError \/ product \/ IsThrown(detection) THEN img
     ELSE IF detection.kind # "face" THEN img
     ELSE AlignedImage(<<img.id[1], no>>, img.originalUrl,
                       FinalCanvas(alignFaceOnCanvas(load, detection.landmarks,
                                                     ComponentAlignOptions(useZoom), TRUE),
                                   getCanvasDimensions(ratio, BaseSize)),
                       ZeroDegrees)

\* a callback that marks as failed the entry whose picture fails
ReprocessedImageMarkingFailure(img, load, answer, no, product, useZoom, ratio, loaded) ==
  LET id == <<img.id[1], no>>
      dims == getCanvasDimensions(ratio, BaseSize)
      detection == detectSingleFace(loaded, answer)
  IN IF load = LoadError THEN FailedImage(img.id, img.originalUrl, "Error processing image")
     ELSE IF product
     THEN AlignedImage(id, img.originalUrl, ProductCanvas(load, useZoom, dims),
                       ZeroDegrees)
     ELSE IF IsThrown(detection) \/ detection.kind # "face"
     THEN FailedImage(img.id, img.originalUrl, "No face detected")
     ELSE AlignedImage(id, img.originalUrl,
                       FinalCanvas(alignFaceOnCanvas(load, detection.landmarks,
                                                     ComponentAlignOptions(useZoom), TRUE),
                                   dims),
                       ToDegrees(calculateEyeMetrics(detection.landmarks).angle))

\* what the map callback returns for an entry that is not skipped: `no` stands
\* for the Date.now() that makes the new id
ReprocessedImage(img, load, answer, no, product, useZoom, ratio, loaded) ==
  LET id == <<img.id[1], no>>
      dims == getCanvasDimensions(ratio, BaseSize)
      detection == detectSingleFace(loaded, answer)
  IN IF load = LoadError THEN img
     ELSE IF product
     THEN AlignedImage(id, img.originalUrl, ProductCanvas(load, useZoom, dims),
                       ZeroDegrees)
     ELSE IF IsThrown(detection) THEN img
     ELSE IF detection.kind # "face" THEN img
     ELSE LET metrics == calculateEyeMetrics(detection.landmarks)
              squareCanvas == alignFaceOnCanvas(load, detection.landmarks,
                                                ComponentAlignOptions(useZoom), TRUE)
          IN IF IsThrown(squareCanvas) THEN img
             ELSE AlignedImage(id, img.originalUrl, FinalCanvas(squareCanvas, dims),
                               ToDegrees(metrics.angle))

\* a callback that skips nothing
SkippedNever(img) == FALSE

\* the entries the map callback skips
Skipped(img) == img.hasError \/ img.alignedCanvas = Null

\* the call can be made within the bounds of the model
ReprocessInBounds ==
  Len(images) > 0 => nReprocess < MaxReprocess /\ InFlight < MaxInFlight

\* reprocessWithNewZoom up to its await, called by a handler that closed over
\* the current state.  The callbacks of the skipped entries have returned;
\* when every entry is skipped the awaited promise is already settled and the
\* rest of the function runs before anything else does.
reprocessWithNewZoom(useZoom) ==
  IF Len(images) = 0
  THEN UNCHANGED <<images, isLoading, error, processedWithZoom, reprocs, nReprocess>>
  ELSE LET todo == {i \in 1..Len(images) : ~Skipped(images[i])}
       IN /\ nReprocess' = nReprocess + 1
          /\ error' = ""
          /\ IF todo = {}
             THEN /\ images' = images
                  /\ processedWithZoom' = useZoom
                  /\ isLoading' = FALSE
                  /\ UNCHANGED reprocs
             ELSE /\ isLoading' = TRUE
                  /\ reprocs' = reprocs \cup
                       {[no |-> nReprocess + 1, images |-> images, todo |-> todo,
                         results |-> images, useZoom |-> useZoom, aspectRatio |-> aspectRatio,
                         isProductMode |-> isProductMode]}
                  /\ UNCHANGED <<images, processedWithZoom>>

\* the results collected in the order in which the callbacks finish
ReprocessFileInCompletionOrder(r, i, load, answer) ==
  LET img == r.images[i]
      called == load # LoadError /\ ~r.isProductMode /\ CallsDetector(modelsLoaded)
      result == ReprocessedImage(img, load, answer, r.no, r.isProductMode, r.useZoom,
                                 r.aspectRatio, modelsLoaded)
      all == {j \in 1..Len(r.images) : ~Skipped(r.images[j])}
      done == Cardinality(all) - Cardinality(r.todo)
      k == CHOOSE j \in all : Cardinality({m \in all : m < j}) = done
      results == [r.results EXCEPT ![k] = result]
      todo == r.todo \ {i}
  IN /\ r \in reprocs
     /\ i \in r.todo
     /\ load = LoadError <=> img.originalUrl \in revoked
     /\ ~called => answer = NoFace
     /\ lastFile' = FileStep(img.originalUrl, "reprocess", load, answer, called)
     /\ IF todo # {}
        THEN /\ reprocs' = (reprocs \ {r}) \cup
                  {[r EXCEPT !.todo = todo, !.results = results]}
             /\ UNCHANGED <<images, processedWithZoom, isLoading>>
        ELSE /\ reprocs' = reprocs \ {r}
             /\ images' = results
             /\ processedWithZoom' = r.useZoom
             /\ isLoading' = FALSE
     /\ UNCHANGED <<error, settings, exportState, loaders, uploads, pendingRender,
                    revoked, nextFile, nReprocess, alignCall, fitCall, heap>>

\* a reprocess that does not reset the loading flag when it is done
ReprocessFileWithoutFinally(r, i, load, answer) ==
  LET img == r.images[i]
      called == load # LoadError /\ ~r.isProductMode /\ CallsDetector(modelsLoaded)
      result == ReprocessedImage(img, load, answer, r.no, r.isProductMode, r.useZoom,
                                 r.aspectRatio, modelsLoaded)
      results == [r.results EXCEPT ![i] = result]
      todo == r.todo \ {i}
  IN /\ r \in reprocs
     /\ i \in r.todo
     /\ load = LoadError <=> img.originalUrl \in revoked
     /\ ~called => answer = NoFace
     /\ lastFile' = FileStep(img.originalUrl, "reprocess", load, answer, called)
     /\ IF todo # {}
        THEN /\ reprocs' = (reprocs \ {r}) \cup
                  {[r EXCEPT !.todo = todo, !.results = results]}
             /\ UNCHANGED <<images, processedWithZoom, isLoading>>
        ELSE /\ reprocs' = reprocs \ {r}
             /\ images' = results
             /\ processedWithZoom' = r.useZoom
             /\ UNCHANGED isLoading
     /\ UNCHANGED <<error, settings, exportState, loaders, uploads, pendingRender,
                    revoked, nextFile, nReprocess, alignCall, fitCall, heap>>

\* the callback of entry i of a reprocess runs to its end; when it is the
\* last one, Promise.all resolves: the sequence is replaced by the results,
\* the zoom level is recorded and the loading flag is reset.  The object URL
\* was loaded when the file was uploaded: it loads again unless it was revoked.
ReprocessFile(r, i, load, answer) ==
  LET img == r.images[i]
      called == load # LoadError /\ ~r.isProductMode /\ CallsDetector(modelsLoaded)
      result == ReprocessedImage(img, load, answer, r.no, r.isProductMode, r.useZoom,
                                 r.aspectRatio, modelsLoaded)
      results == [r.results EXCEPT ![i] = result]
      todo == r.todo \ {i}
  IN /\ r \in reprocs
     /\ i \in r.todo
     /\ load = LoadError <=> img.originalUrl \in revoked
     /\ ~called => answer = NoFace
     /\ lastFile' = FileStep(img.originalUrl, "reprocess", load, answer, called)
     /\ IF todo # {}
        THEN /\ reprocs' = (reprocs \ {r}) \cup
                  {[r EXCEPT !.todo = todo, !.results = results]}
             /\ UNCHANGED <<images, processedWithZoom, isLoading>>
        ELSE /\ reprocs' = reprocs \ {r}
             /\ images' = results
             /\ processedWithZoom' = r.useZoom
             /\ isLoading' = FALSE
     /\ UNCHANGED <<error, settings, exportState, loaders, uploads, pendingRender,
                    revoked, nextFile, nReprocess, alignCall, fitCall, heap>>

ControlsEnabled == ~isLoading /\ ~isGeneratingGif /\ ~isGeneratingVideo

\* the "Zoom level changed!" alert is rendered
ZoomWarningShown == Len(images) > 0 /\ zoomLevel # processedWithZoom

\* the Reprocess button, shown while the sequence is not empty
ReprocessButton ==
  /\ Len(images) > 0
  /\ ControlsEnabled
  /\ ReprocessInBounds
  /\ reprocessWithNewZoom(zoomLevel)
  /\ lastFile' = NoCall
  /\ UNCHANGED <<settings, exportState, loaders, uploads, pendingRender, revoked,
                 nextFile, alignCall, fitCall, heap>>

\* the body of handleZoomChange
handleZoomChange(newZoom) ==
  /\ ReprocessInBounds
  /\ zoomLevel' = newZoom
  /\ reprocessWithNewZoom(newZoom)
  /\ lastFile' = NoCall
  /\ UNCHANGED <<isProductMode, aspectRatio, frameDuration, exportFormat,
                 exportResolution, exportState, loaders, uploads, revoked, nextFile,
                 alignCall, fitCall, heap>>

\* a zoom preset button: a click, after which React renders before the next event
ZoomPreset(z) ==
  /\ ControlsEnabled
  /\ handleZoomChange(z)
  /\ UNCHANGED pendingRender

\* the slider reports a new value while it is dragged.  The pointer moves of
\* one drag are continuous events: React schedules the render that disables
\* the slider, and a further move may be delivered before that render is
\* committed, to the handlers of the render on screen (isLoading false,
\* zoomLevel as rendered).
ZoomSlider(z) ==
  /\ ~isGeneratingGif /\ ~isGeneratingVideo
  /\ IF pendingRender = NoRender
     THEN ~isLoading /\ z # zoomLevel
     ELSE z # pendingRender.zoomLevel
  /\ handleZoomChange(z)
  /\ pendingRender' = IF pendingRender = NoRender
                      THEN [kind |-> "render", zoomLevel |-> zoomLevel]
                      ELSE pendingRender

\* React commits the scheduled render
CommitRender ==
  /\ pendingRender # NoRender
  /\ pendingRender' = NoRender
  /\ lastFile' = NoCall
  /\ UNCHANGED <<images, isLoading, error, processedWithZoom, settings, exportState,
                 loaders, uploads, reprocs, revoked, nextFile, nReprocess, alignCall,
                 fitCall, heap>>

\* the aspect ratio buttons: the reprocess is called by the handler that
\* closed over the aspect ratio on screen
handleAspectRatioChange(newRatio) ==
  /\ ControlsEnabled
  /\ ReprocessInBounds
  /\ aspectRatio' = newRatio
  /\ reprocessWithNewZoom(zoomLevel)
  /\ lastFile' = NoCall
  /\ UNCHANGED <<isProductMode, zoomLevel, frameDuration, exportFormat,
                 exportResolution, exportState, loaders, uploads, pendingRender,
                 revoked, nextFile, alignCall, fitCall, heap>>

-----------------------------------------------------------------------------
(* FaceDetector: the export settings and the exports *)

setFrameDuration(d) ==
  /\ ControlsEnabled
  /\ d # frameDuration
  /\ frameDuration' = d
  /\ lastFile' = NoCall
  /\ UNCHANGED <<images, isLoading, error, processedWithZoom, isProductMode, zoomLevel,
                 aspectRatio, exportFormat, exportResolution, exportState, loaders,
                 uploads, reprocs, pendingRender, revoked, nextFile, nReprocess,
                 alignCall, fitCall, heap>>

ExportSettingsEnabled == Len(images) > 0 /\ ~isGeneratingGif /\ ~isGeneratingVideo

setExportFormat(f) ==
  /\ ExportSettingsEnabled
  /\ f # exportFormat
  /\ exportFormat' = f
  /\ lastFile' = NoCall
  /\ UNCHANGED <<images, isLoading, error, processedWithZoom, isProductMode, zoomLevel,
                 aspectRatio, frameDuration, exportResolution, exportState, loaders,
                 uploads, reprocs, pendingRender, revoked, nextFile, nReprocess,
                 alignCall, fitCall, heap>>

setExportResolution(res) ==
  /\ ExportSettingsEnabled
  /\ res # exportResolution
  /\ exportResolution' = res
  /\ lastFile' = NoCall
  /\ UNCHANGED <<images, isLoading, error, processedWithZoom, isProductMode, zoomLevel,
                 aspectRatio, frameDuration, exportFormat, exportState, loaders,
                 uploads, reprocs, pendingRender, revoked, nextFile, nReprocess,
                 alignCall, fitCall, heap>>

\* a fit that takes the larger of the two scales
FitRectCovering(sw, sh, tw, th) ==
  LET scaleX == NumDiv(tw, sw)
      scaleY == NumDiv(th, sh)
      scale == IF NumLt(scaleY, scaleX) THEN scaleX ELSE scaleY
      scaledWidth == NumMul(sw, scale)
      scaledHeight == NumMul(sh, scale)
  IN [x |-> NumDiv(NumSub(tw, scaledWidth), Num(2)),
      y |-> NumDiv(NumSub(th, scaledHeight), Num(2)),
      width |-> scaledWidth, height |-> scaledHeight]

\* the rectangle into which a sw x sh frame is drawn on a tw x th canvas
FitRect(sw, sh, tw, th) ==
  LET scaleX == NumDiv(tw, sw)
      scaleY == NumDiv(th, sh)
      scale == IF NumLt(scaleY, scaleX) THEN scaleY ELSE scaleX
      scaledWidth == NumMul(sw, scale)
      scaledHeight == NumMul(sh, scale)
  IN [x |-> NumDiv(NumSub(tw, scaledWidth), Num(2)),
      y |-> NumDiv(NumSub(th, scaledHeight), Num(2)),
      width |-> scaledWidth, height |-> scaledHeight]

\* a frame drawn on a canvas of the export's dimensions
FitCanvas(canvas, dims) ==
  LET rect == FitRect(canvas.width, canvas.height, Num(dims.width), Num(dims.height))
  IN DrawCanvasInto(dims.width, dims.height, canvas, rect.x, rect.y, rect.width,
                    rect.height)

\* the frames in reverse order, as they are
GifFramesReversed(validImages, dims, delay) ==
  [i \in 1..Len(validImages) |->
     [canvas |-> validImages[Len(validImages) + 1 - i].alignedCanvas, delay |-> delay]]

\* a generateGif that does not look at the number of valid frames
generateGifUnchecked(resolution) ==
  LET validImages == ValidImages(images)
      dims == getCanvasDimensions(aspectRatio, resolution)
  IN /\ isGeneratingGif' = TRUE
     /\ gifProgress' = 0
     /\ error' = ""
     /\ gif' = [kind |-> "gif", width |-> dims.width, height |-> dims.height,
                frames |-> [i \in 1..Len(validImages) |->
                              [canvas |-> validImages[i].alignedCanvas,
                               delay |-> frameDuration]]]

\* the frames given to gif.addFrame
GifFrames(validImages, dims, delay) ==
  LET firstCanvas == validImages[1].alignedCanvas
      needsResize == \/ firstCanvas.width # Num(dims.width)
                     \/ firstCanvas.height # Num(dims.height)
  IN [i \in 1..Len(validImages) |->
        [canvas |-> IF needsResize THEN FitCanvas(validImages[i].alignedCanvas, dims)
                    ELSE validImages[i].alignedCanvas,
         delay |-> delay]]

generateGif(resolution) ==
  LET validImages == ValidImages(images)
      dims == getCanvasDimensions(aspectRatio, resolution)
  IN IF Len(validImages) = 0
     THEN /\ error' = "No valid aligned faces to create GIF"
          /\ UNCHANGED <<isGeneratingGif, gifProgress, gif>>
     ELSE /\ isGeneratingGif' = TRUE
          /\ gifProgress' = 0
          /\ error' = ""
          /\ gif' = [kind |-> "gif", width |-> dims.width, height |-> dims.height,
                     frames |-> GifFrames(validImages, dims, frameDuration)]

\* what renderFrame draws on the recorded canvas, and the delay of the timer
\* it sets before the next frame is drawn
VideoFrame(img, dims, delay) ==
  [canvas |-> FitCanvas(img.alignedCanvas, dims), delay |-> delay]

\* the progress of the frames drawn before the current one
VideoProgressBefore(currentFrame, totalFrames) == Round(Frac(currentFrame * 100, totalFrames))

\* Math.round(((currentFrame + 1) / totalFrames) * 100)
VideoProgress(currentFrame, totalFrames) == Round(Frac((currentFrame + 1) * 100, totalFrames))

\* the recorder can be created (ok) or the browser throws
generateVideo(resolution, ok) ==
  LET validImages == ValidImages(images)
      dims == getCanvasDimensions(aspectRatio, resolution)
  IN IF Len(validImages) = 0
     THEN /\ error' = "No valid aligned faces to create video"
          /\ UNCHANGED <<isGeneratingVideo, videoProgress, video>>
     ELSE IF ~ok
     THEN /\ error' = "Failed to generate video. Your browser may not support video recording."
          /\ isGeneratingVideo' = FALSE
          /\ videoProgress' = 0
          /\ UNCHANGED video
     ELSE /\ isGeneratingVideo' = TRUE
          /\ error' = ""
          /\ videoProgress' = VideoProgress(0, Len(validImages))
          /\ video' = [kind |-> "video", validImages |-> validImages, dims |-> dims,
                       frameDuration |-> frameDuration, currentFrame |-> 1,
                       drawn |-> <<VideoFrame(validImages[1], dims, frameDuration)>>,
                       recorder |-> "recording"]

\* a Generate button that stays enabled during an export
handleGenerateAlways(ok) ==
  /\ ValidImagesCount(images) # 0
  /\ IF exportFormat = "gif"
     THEN /\ ok
          /\ generateGif(exportResolution)
          /\ UNCHANGED <<isGeneratingVideo, videoProgress, video>>
     ELSE /\ generateVideo(exportResolution, ok)
          /\ UNCHANGED <<isGeneratingGif, gifProgress, gif>>
  /\ lastFile' = NoCall
  /\ UNCHANGED <<images, isLoading, processedWithZoom, settings, loaders, uploads,
                 reprocs, pendingRender, revoked, nextFile, nReprocess, alignCall, fitCall,
                 heap>>

\* the Generate button
handleGenerate(ok) ==
  /\ ValidImagesCount(images) # 0
  /\ ~isGeneratingGif /\ ~isGeneratingVideo
  /\ IF exportFormat = "gif"
     THEN /\ ok
          /\ generateGif(exportResolution)
          /\ UNCHANGED <<isGeneratingVideo, videoProgress, video>>
     ELSE /\ generateVideo(exportResolution, ok)
          /\ UNCHANGED <<isGeneratingGif, gifProgress, gif>>
  /\ lastFile' = NoCall
  /\ UNCHANGED <<images, isLoading, processedWithZoom, settings, loaders, uploads,
                 reprocs, pendingRender, revoked, nextFile, nReprocess, alignCall, fitCall, heap>>

\* the encoder fails after gif.render() was called (a worker that does not
\* load or that throws): it emits neither 'progress' nor 'finished' any more,
\* and the component has registered no other handler
GifFailed ==
  /\ gif # NoExport
  /\ gif.kind = "gif"
  /\ gif' = [gif EXCEPT !.kind = "failed"]
  /\ lastFile' = NoCall
  /\ UNCHANGED <<images, isLoading, error, processedWithZoom, settings, isGeneratingGif,
                 gifProgress, isGeneratingVideo, videoProgress, video, loaders, uploads,
                 reprocs, pendingRender, revoked, nextFile, nReprocess, alignCall,
                 fitCall, heap>>

\* the encoder's 'finished' event
GifFinished ==
  /\ gif # NoExport
  /\ gif.kind = "gif"
  /\ isGeneratingGif' = FALSE
  /\ gifProgress' = 0
  /\ gif' = NoExport
  /\ lastFile' = NoCall
  /\ UNCHANGED <<images, isLoading, error, processedWithZoom, settings,
                 isGeneratingVideo, videoProgress, video, loaders, uploads, reprocs,
                 pendingRender, revoked, nextFile, nReprocess, alignCall, fitCall, heap>>

\* the timer set by renderFrame fires
renderFrame ==
  /\ video # NoExport
  /\ video.recorder = "recording"
  /\ IF video.currentFrame >= Len(video.validImages)
     THEN /\ video' = [video EXCEPT !.recorder = "stopping"]
          /\ UNCHANGED videoProgress
     ELSE /\ video' = [video EXCEPT
                 !.drawn = Append(@, VideoFrame(video.validImages[video.currentFrame + 1],
                                                video.dims, video.frameDuration)),
                 !.currentFrame = @ + 1]
          /\ videoProgress' = VideoProgress(video.currentFrame, Len(video.validImages))
  /\ lastFile' = NoCall
  /\ UNCHANGED <<images, isLoading, error, processedWithZoom, settings, isGeneratingGif,
                 gifProgress, isGeneratingVideo, gif, loaders, uploads, reprocs,
                 pendingRender, revoked, nextFile, nReprocess, alignCall, fitCall, heap>>

\* mediaRecorder.onstop
RecorderStopped ==
  /\ video # NoExport
  /\ video.recorder = "stopping"
  /\ isGeneratingVideo' = FALSE
  /\ videoProgress' = 0
  /\ video' = NoExport
  /\ lastFile' = NoCall
  /\ UNCHANGED <<images, isLoading, error, processedWithZoom, settings, isGeneratingGif,
                 gifProgress, gif, loaders, uploads, reprocs, pendingRender, revoked,
                 nextFile, nReprocess, alignCall, fitCall, heap>>

-----------------------------------------------------------------------------
(* The component *)

InitComponent ==
  /\ images = <<>>
  /\ isLoading = FALSE
  /\ error = ""
  /\ isProductMode = FALSE
  /\ zoomLevel = 140
  /\ processedWithZoom = 140
  /\ aspectRatio = "1:1"
  /\ frameDuration = 500
  /\ exportFormat = "gif"
  /\ exportResolution = 500
  /\ isGeneratingGif = FALSE
  /\ gifProgress = 0
  /\ isGeneratingVideo = FALSE
  /\ videoProgress = 0
  /\ isModelsLoading = TRUE
  /\ modelsLoaded = FALSE
  /\ isOpenCVLoading = FALSE
  /\ isOpenCVLoaded = FALSE
  /\ uploads = {}
  /\ reprocs = {}
  /\ gif = NoExport
  /\ video = NoExport
  /\ pendingRender = NoRender
  /\ revoked = {}
  /\ nextFile = 0
  /\ nReprocess = 0
  /\ lastFile = NoCall

Init == InitComponent /\ alignCall = NoCall /\ fitCall = NoCall /\ heap = NoCall

\* the steps of the environment: awaited promises settle, timers and events fire
Settle ==
  \/ \E ok \in BOOLEAN : LoadModels(ok)
  \/ OpenCVLoaded
  \/ \E u \in uploads, size \in ImageSizes, answer \in DetectorAnswers :
       \/ UploadFile(u, Image(u.url, size), answer)
       \/ UploadFile(u, LoadError, answer)
  \/ \E r \in reprocs, size \in ImageSizes, answer \in DetectorAnswers :
       \E i \in r.todo :
         \/ ReprocessFile(r, i, Image(r.images[i].originalUrl, size), answer)
         \/ ReprocessFile(r, i, LoadError, answer)
  \/ GifFinished
  \/ GifFailed
  \/ renderFrame
  \/ RecorderStopped

\* what the user does
UserEvent ==
  \/ \E files \in FileLists : handleFileUpload(files)
  \/ \E i \in 1..Len(images) : removeImage(images[i].id)
  \/ clearAll
  \/ \E product \in BOOLEAN, confirm \in BOOLEAN : SwitchMode(product, confirm)
  \/ ReprocessButton
  \/ \E z \in ZoomLevels : ZoomPreset(z)
  \/ \E ratio \in AspectRatios : handleAspectRatioChange(ratio)
  \/ \E d \in FrameDurations : setFrameDuration(d)
  \/ \E f \in {"gif", "video"} : setExportFormat(f)
  \/ \E res \in ExportResolutions : setExportResolution(res)
  \/ \E ok \in BOOLEAN : handleGenerate(ok)

\* no render is scheduled
Idle == pendingRender = NoRender

\* while a render is scheduled, only the events of the running drag are
\* delivered before React commits it
Next ==
  \/ \E z \in ZoomLevels : ZoomSlider(z)
  \/ CommitRender
  \/ Idle /\ Settle
  \/ Idle /\ UserEvent

Spec == Init /\ [][Next]_vars

-----------------------------------------------------------------------------
(* alignFaceOnCanvas on its own: the arguments are drawn from small sets in *)
(* the initial state and the call is one step.                              *)

AlignCanvasSizes == {Undefined, Num(500), Num(400), Num(0), Num(-500)}

AlignEyeDistances == {Undefined, Num(140), Num(200), Num(0), Num(-140)}

AlignEyeYs == {Undefined, Num(200), Num(0)}

AlignScaleFactors == {Undefined, Num(1), Frac(3, 2), Num(0), Num(-1)}

AlignOptionSets ==
  {AlignFaceOptions(cs, ted, tey, sf) :
     cs \in AlignCanvasSizes, ted \in AlignEyeDistances, tey \in AlignEyeYs,
     sf \in AlignScaleFactors}

InitAlign ==
  /\ InitComponent
  /\ \E landmarks \in LandmarkSets, options \in AlignOptionSets, ctx \in BOOLEAN :
       alignCall = [kind |-> "call", image |-> Image(1, <<400, 300>>),
                    landmarks |-> landmarks, options |-> options, ctx |-> ctx,
                    result |-> NoCall]
  /\ fitCall = NoCall
  /\ heap = NoCall

CallAlign ==
  /\ alignCall.kind = "call"
  /\ alignCall' = [alignCall EXCEPT
        !.kind = "returned",
        !.result = alignFaceOnCanvas(alignCall.image, alignCall.landmarks,
                                     alignCall.options, alignCall.ctx)]
  /\ lastFile' = NoCall
  /\ UNCHANGED <<images, isLoading, error, processedWithZoom, settings, exportState,
                 loaders, uploads, reprocs, pendingRender, revoked, nextFile,
                 nReprocess, fitCall, heap>>

NextAlign == CallAlign

SpecAlign == InitAlign /\ [][NextAlign]_vars

-----------------------------------------------------------------------------
(* Sessions.  The component is also explored one part of a session at a     *)
(* time: from a state it can be in, under the events that part consists of. *)

\* the size of the pictures of that batch
UploadedSize == CHOOSE size \in ImageSizes : TRUE

\* the sequence left by uploading one batch for which the detector gave `answers`
Uploaded(answers, product, zoom, ratio) ==
  [i \in 1..Len(answers) |->
     UploadEntry(i, Image(i, UploadedSize), answers[i], product, zoom, ratio, TRUE)]

\* the state after the models were loaded, a zoom level and an aspect ratio
\* were chosen and one batch was uploaded in Face Mode
AfterUpload(answers, zoom, ratio) ==
  /\ images = Uploaded(answers, FALSE, zoom, ratio)
  /\ isLoading = FALSE
  /\ error = ""
  /\ isProductMode = FALSE
  /\ zoomLevel = zoom
  /\ processedWithZoom = zoom
  /\ aspectRatio = ratio
  /\ frameDuration = 500
  /\ exportFormat = "gif"
  /\ exportResolution = 500
  /\ isGeneratingGif = FALSE
  /\ gifProgress = 0
  /\ isGeneratingVideo = FALSE
  /\ videoProgress = 0
  /\ isModelsLoading = FALSE
  /\ modelsLoaded = TRUE
  /\ isOpenCVLoading = FALSE
  /\ isOpenCVLoaded = FALSE
  /\ uploads = {}
  /\ reprocs = {}
  /\ gif = NoExport
  /\ video = NoExport
  /\ pendingRender = NoRender
  /\ revoked = {}
  /\ nextFile = Len(answers)
  /\ nReprocess = 0
  /\ lastFile = FileStep(Len(answers), "upload", Image(Len(answers), UploadedSize),
                          answers[Len(answers)], TRUE)
  /\ alignCall = NoCall /\ fitCall = NoCall /\ heap = NoCall

\* the batches the later parts of a session start from
Batches ==
  {<<Face(LmTiltUp), Face(LmCoincident)>>,
   <<NoFace, Face(LmTiltUp)>>,
   <<DetectorThrows>>}

\* uploading: the component after construction, a zoom level and an aspect
\* ratio chosen while the models load
InitUpload ==
  /\ InitComponent
  /\ alignCall = NoCall /\ fitCall = NoCall /\ heap = NoCall

NextUpload ==
  \/ \E ok \in BOOLEAN : LoadModels(ok)
  \/ \E product \in BOOLEAN, confirm \in BOOLEAN : SwitchMode(product, confirm)
  \/ OpenCVLoaded
  \/ \E z \in ZoomLevels : Len(images) = 0 /\ ZoomPreset(z)
  \/ \E ratio \in AspectRatios : Len(images) = 0 /\ handleAspectRatioChange(ratio)
  \/ \E files \in FileLists : handleFileUpload(files)
  \/ \E u \in uploads, size \in ImageSizes, answer \in DetectorAnswers :
       \/ UploadFile(u, Image(u.url, size), answer)
       \/ UploadFile(u, LoadError, answer)
  \/ \E i \in 1..Len(images) : removeImage(images[i].id)
  \/ clearAll

SpecUpload == InitUpload /\ [][NextUpload]_vars

\* what loadImage may give for the picture behind an object URL
Loads(url) == {Image(url, size) : size \in ImageSizes} \cup {LoadError}

\* reprocessing: the zoom and aspect ratio controls and the Reprocess button
\* after a batch was uploaded
InitReprocess == \E answers \in Batches : AfterUpload(answers, 140, "1:1")

NextReprocess ==
  \/ \E z \in ZoomLevels : ZoomSlider(z)
  \/ CommitRender
  \/ Idle /\ ReprocessButton
  \/ \E z \in ZoomLevels : Idle /\ ZoomPreset(z)
  \/ \E ratio \in AspectRatios : Idle /\ handleAspectRatioChange(ratio)
  \/ \E r \in reprocs, answer \in DetectorAnswers :
       \E i \in r.todo : \E load \in Loads(r.images[i].originalUrl) :
         Idle /\ ReprocessFile(r, i, load, answer)
  \/ \E i \in 1..Len(images) : Idle /\ removeImage(images[i].id)
  \/ Idle /\ clearAll

SpecReprocess == InitReprocess /\ [][NextReprocess]_vars

\* exporting: the export settings and the Generate button after a batch was
\* uploaded
InitExport ==
  \E answers \in Batches, ratio \in AspectRatios : AfterUpload(answers, 140, ratio)

NextExport ==
  \/ \E d \in FrameDurations : setFrameDuration(d)
  \/ \E f \in {"gif", "video"} : setExportFormat(f)
  \/ \E res \in ExportResolutions : setExportResolution(res)
  \/ \E ok \in BOOLEAN : handleGenerate(ok)
  \/ GifFinished
  \/ GifFailed
  \/ renderFrame
  \/ RecorderStopped
  \/ \E i \in 1..Len(images) : removeImage(images[i].id)
  \/ clearAll

SpecExport == InitExport /\ [][NextExport]_vars

\* changing the aspect ratio: the aspect ratio buttons and the GIF export
\* after a batch was uploaded.  Every reprocess of such a session is started
\* by handleAspectRatioChange.
InitRatio == \E answers \in Batches : AfterUpload(answers, 140, "1:1")

NextRatio ==
  \/ \E ratio \in AspectRatios : handleAspectRatioChange(ratio)
  \/ \E r \in reprocs, size \in ImageSizes, answer \in DetectorAnswers :
       \E i \in r.todo :
         \/ ReprocessFile(r, i, Image(r.images[i].originalUrl, size), answer)
         \/ ReprocessFile(r, i, LoadError, answer)
  \/ \E ok \in BOOLEAN : handleGenerate(ok)
  \/ GifFinished

SpecRatio == InitRatio /\ [][NextRatio]_vars

\* changing the zoom level: the zoom presets, the Reprocess button and further
\* uploads after a batch of a picture without a face and a picture with one

InitZoom == AfterUpload(<<NoFace, Face(LmTiltUp)>>, 140, "1:1")

NextZoom ==
  \/ \E z \in ZoomLevels : ZoomPreset(z)
  \/ ReprocessButton
  \/ \E r \in reprocs, answer \in DetectorAnswers :
       \E i \in r.todo : \E load \in Loads(r.images[i].originalUrl) :
         ReprocessFile(r, i, load, answer)
  \/ \E files \in FileLists : handleFileUpload(files)
  \/ \E u \in uploads, answer \in DetectorAnswers :
       \E load \in Loads(u.url) : UploadFile(u, load, answer)

SpecZoom == InitZoom /\ [][NextZoom]_vars

-----------------------------------------------------------------------------
\* The rasters as objects.  Every canvas made by document.createElement and
\* every picture made by loadImage is an object of its own: heap.objects[id] is
\* what object id holds, and heap.frames[i] is the object that the
\* alignedCanvas of the i-th entry of the sequence refers to.

\* the objects a session of the raster model may allocate
MaxObjects == 6

\* the frames a session of the raster model may upload
MaxRasterFrames == 2

\* nothing allocated, no frame
NoObjects == [objects |-> <<>>, frames |-> <<>>]

\* an allocator that hands back the object allocated last
createElementPooled(objects) == IF Len(objects) = 0 THEN 1 ELSE Len(objects)

\* document.createElement('canvas'), new Image(): an object that did not exist
createElement(objects) == Len(objects) + 1

\* drawing through the context of canvas id changes what that canvas holds
Store(objects, id, value) ==
  IF id = Len(objects) + 1 THEN Append(objects, value)
  ELSE [objects EXCEPT ![id] = value]

\* alignFaceOnCanvas on the heap: it creates a canvas, draws the picture into
\* it and returns it
AlignOnHeap(objects, imageId, landmarks, options) ==
  LET canvas == createElement(objects)
  IN [objects |-> Store(objects, canvas,
                        alignFaceOnCanvas(objects[imageId], landmarks, options, TRUE)),
      result |-> canvas]

\* one picture rendered into the i-th frame: loadImage makes the picture,
\* alignFaceOnCanvas the aligned square, createElement the final canvas into
\* which the square is drawn, and the i-th entry refers to the final canvas
RenderFrame(i, url, size, landmarks, zoom, ratio) ==
  \E loaded \in {Append(heap.objects, Image(url, size))} :
    \E square \in {AlignOnHeap(loaded, Len(loaded), landmarks,
                               ComponentAlignOptions(zoom))} :
      \E finalCanvas \in {createElement(square.objects)} :
        heap' = [objects |-> Store(square.objects, finalCanvas,
                                   FinalCanvas(square.objects[square.result],
                                               getCanvasDimensions(ratio, BaseSize))),
                 frames |-> IF i > Len(heap.frames) THEN Append(heap.frames, finalCanvas)
                            ELSE [heap.frames EXCEPT ![i] = finalCanvas]]

\* handleFileUpload for one file with a face: an entry is pushed
RasterUpload(size, landmarks, zoom, ratio) ==
  /\ heap # NoCall
  /\ Len(heap.frames) < MaxRasterFrames
  /\ Len(heap.objects) + 3 <= MaxObjects
  /\ RenderFrame(Len(heap.frames) + 1, Len(heap.frames) + 1, size, landmarks, zoom, ratio)
  /\ lastFile' = NoCall
  /\ UNCHANGED <<images, isLoading, error, processedWithZoom, settings, exportState,
                 loaders, uploads, reprocs, pendingRender, revoked, nextFile,
                 nReprocess, alignCall, fitCall>>

\* reprocessWithNewZoom for the i-th entry with a face: the entry is replaced
RasterReprocess(i, size, landmarks, zoom, ratio) ==
  /\ heap # NoCall
  /\ i \in 1..Len(heap.frames)
  /\ Len(heap.objects) + 3 <= MaxObjects
  /\ RenderFrame(i, i, size, landmarks, zoom, ratio)
  /\ lastFile' = NoCall
  /\ UNCHANGED <<images, isLoading, error, processedWithZoom, settings, exportState,
                 loaders, uploads, reprocs, pendingRender, revoked, nextFile,
                 nReprocess, alignCall, fitCall>>

\* a call of alignFaceOnCanvas on a picture that is already loaded
RasterAlign(imageId, landmarks, zoom) ==
  /\ heap # NoCall
  /\ imageId \in 1..Len(heap.objects)
  /\ heap.objects[imageId].kind = "image"
  /\ Len(heap.objects) + 1 <= MaxObjects
  /\ \E aligned \in {AlignOnHeap(heap.objects, imageId, landmarks,
                                   ComponentAlignOptions(zoom))} :
       heap' = [objects |-> aligned.objects, frames |-> heap.frames]
  /\ lastFile' = NoCall
  /\ UNCHANGED <<images, isLoading, error, processedWithZoom, settings, exportState,
                 loaders, uploads, reprocs, pendingRender, revoked, nextFile,
                 nReprocess, alignCall, fitCall>>

InitRaster == InitComponent /\ alignCall = NoCall /\ fitCall = NoCall /\ heap = NoObjects

NextRaster ==
  \/ \E size \in ImageSizes, l \in {LmLevel, LmTiltUp}, z \in {140, 200}, ratio \in AspectRatios :
       RasterUpload(size, l, z, ratio)
  \/ \E i \in 1..MaxRasterFrames, size \in ImageSizes, l \in {LmLevel, LmTiltUp},
        z \in {140, 200}, ratio \in AspectRatios :
       RasterReprocess(i, size, l, z, ratio)
  \/ \E id \in 1..MaxObjects, l \in {LmLevel, LmTiltUp}, z \in {140, 200} :
       RasterAlign(id, l, z)

SpecRaster == InitRaster /\ [][NextRaster]_vars

\* uploading more files to a sequence and reprocessing it: one frame is there,
\* further files are uploaded and the Reprocess button is used
InitSteps == AfterUpload(<<Face(LmTiltUp)>>, 140, "1:1")

NextSteps ==
  \/ \E files \in FileLists : handleFileUpload(files)
  \/ \E u \in uploads, answer \in {Face(LmTiltUp), NoFace} :
       \E load \in Loads(u.url) : UploadFile(u, load, answer)
  \/ ReprocessButton
  \/ \E r \in reprocs, answer \in {Face(LmTiltUp), NoFace} :
       \E i \in r.todo : \E load \in Loads(r.images[i].originalUrl) :
         ReprocessFile(r, i, load, answer)

SpecSteps == InitSteps /\ [][NextSteps]_vars

\* a suspended callback is resumed: loadImage or the detector returned or threw
AwaitReturns ==
  \/ \E u \in uploads, answer \in {Face(LmTiltUp), NoFace} :
       \E load \in Loads(u.url) : UploadFile(u, load, answer)
  \/ \E r \in reprocs, answer \in {Face(LmTiltUp), NoFace} :
       \E i \in r.todo : \E load \in Loads(r.images[i].originalUrl) :
         ReprocessFile(r, i, load, answer)

\* the same session when every image load and every detector call ends
SpecStepsFair == InitSteps /\ [][NextSteps]_vars /\ WF_vars(AwaitReturns)

-----------------------------------------------------------------------------
\* Fitting a stored frame into the canvas of an export, on its own

\* the aspect ratios of the buttons
FitRatios == {"1:1", "9:16", "16:9", "4:5"}

\* the resolutions of the buttons
FitResolutions == {500, 720, 1080, 1440}

\* the stored frame has the dimensions of one aspect ratio at the base size,
\* the export canvas those of an aspect ratio at a resolution
InitFit ==
  /\ InitComponent
  /\ alignCall = NoCall
  /\ heap = NoCall
  /\ \E from \in FitRatios, to \in FitRatios, resolution \in FitResolutions :
       fitCall = [kind |-> "call", source |-> getCanvasDimensions(from, BaseSize),
                  target |-> getCanvasDimensions(to, resolution), result |-> NoCall]

\* the rectangle is computed as generateGif and renderFrame compute it
CallFit ==
  /\ fitCall.kind = "call"
  /\ fitCall' = [fitCall EXCEPT
        !.kind = "returned",
        !.result = FitRect(Num(fitCall.source.width), Num(fitCall.source.height),
                           Num(fitCall.target.width), Num(fitCall.target.height))]
  /\ lastFile' = NoCall
  /\ UNCHANGED <<images, isLoading, error, processedWithZoom, settings, exportState,
                 loaders, uploads, reprocs, pendingRender, revoked, nextFile,
                 nReprocess, alignCall, heap>>

NextFit == CallFit

SpecFit == InitFit /\ [][NextFit]_vars

-----------------------------------------------------------------------------
\* Rendering two pictures into frames with one configuration, on its own: the
\* first as handleFileUpload renders it, the second as reprocessWithNewZoom
\* renders it over a frame of the second picture that is in the sequence

InitFrame ==
  /\ InitComponent
  /\ fitCall = NoCall
  /\ heap = NoCall
  /\ \E first \in LandmarkSets, second \in LandmarkSets, zoom \in ZoomLevels,
        ratio \in FitRatios :
       alignCall = [kind |-> "render", first |-> first, second |-> second,
                    zoom |-> zoom, ratio |-> ratio, result |-> NoCall]

CallRender ==
  /\ alignCall.kind = "render"
  /\ \E previous \in {UploadEntry(2, Image(2, UploadedSize), Face(alignCall.second),
                                  FALSE, DefaultTargetEyeDistance, "1:1", TRUE)} :
       alignCall' = [alignCall EXCEPT
          !.kind = "rendered",
          !.result = <<UploadEntry(1, Image(1, UploadedSize), Face(alignCall.first),
                                   FALSE, alignCall.zoom, alignCall.ratio, TRUE),
                       ReprocessedImage(previous, Image(2, UploadedSize),
                                        Face(alignCall.second), 1, FALSE,
                                        alignCall.zoom, alignCall.ratio, TRUE)>>]
  /\ lastFile' = NoCall
  /\ UNCHANGED <<images, isLoading, error, processedWithZoom, settings, exportState,
                 loaders, uploads, reprocs, pendingRender, revoked, nextFile,
                 nReprocess, fitCall, heap>>

NextFrame == CallRender

SpecFrame == InitFrame /\ [][NextFrame]_vars

-----------------------------------------------------------------------------
\* The detection functions of lib/faceapi called on their own, before, while
\* and after the component loads the models

\* the options of a call
DetectOptions ==
  [withLandmarks : BOOLEAN, withDescriptors : BOOLEAN, withExpressions : BOOLEAN,
   useTinyModel : BOOLEAN]

\* what the detector may return for all faces of a picture
AllFacesAnswers ==
  {Faces(<<>>), Faces(<<LmTiltUp>>), Faces(<<LmTiltUp, LmLevel>>), DetectorThrows}

\* a call of one of the two functions and what it gave
DetectStep(fn, options, called, result) ==
  [kind |-> "detect", fn |-> fn, options |-> options, called |-> called,
   result |-> result]

CallDetectSingleFace(options, answer) ==
  /\ ~CallsDetector(modelsLoaded) => answer = NoFace
  /\ lastFile' = DetectStep("detectSingleFace", options, CallsDetector(modelsLoaded),
                            detectSingleFace(modelsLoaded, answer))
  /\ UNCHANGED <<images, isLoading, error, processedWithZoom, settings, exportState,
                 loaders, uploads, reprocs, pendingRender, revoked, nextFile,
                 nReprocess, alignCall, fitCall, heap>>

CallDetectAllFaces(options, answer) ==
  /\ ~CallsDetector(modelsLoaded) => answer = Faces(<<>>)
  /\ lastFile' = DetectStep("detectAllFaces", options, CallsDetector(modelsLoaded),
                            detectAllFaces(modelsLoaded, answer))
  /\ UNCHANGED <<images, isLoading, error, processedWithZoom, settings, exportState,
                 loaders, uploads, reprocs, pendingRender, revoked, nextFile,
                 nReprocess, alignCall, fitCall, heap>>

InitDetect == Init

NextDetect ==
  \/ \E ok \in BOOLEAN : LoadModels(ok)
  \/ \E options \in DetectOptions, answer \in DetectorAnswers :
       CallDetectSingleFace(options, answer)
  \/ \E options \in DetectOptions, answer \in AllFacesAnswers :
       CallDetectAllFaces(options, answer)

SpecDetect == InitDetect /\ [][NextDetect]_vars

-----------------------------------------------------------------------------
\* calculateEyeMetrics called on its own

\* outlines of an eye; the mean of the points of each is (1, 1)
EyeShapes ==
  {<<Pt(0, 1), Pt(2, 1)>>,
   <<Pt(0, 0), Pt(3, 0), Pt(0, 3)>>,
   <<Pt(0, 1), Pt(1, 0), Pt(2, 0), Pt(2, 2), Pt(1, 2), Pt(0, 1)>>}

\* vectors from the left to the right eye centre, of rational length
EyeVectors ==
  {<<3, 4>>, <<4, 3>>, <<3, -4>>, <<4, -3>>, <<-3, 4>>, <<-4, 3>>, <<-3, -4>>,
   <<-4, -3>>, <<5, 0>>, <<-5, 0>>, <<0, 5>>, <<0, -5>>, <<0, 0>>}

\* the points of an outline placed at (x, y)
Placed(shape, x, y) == [i \in 1..Len(shape) |-> Pt(shape[i].x + x, shape[i].y + y)]

MetricsLandmarks ==
  LandmarkSets \cup
  {Landmarks(Placed(l, 10, 10), Placed(r, 10 + v[1], 10 + v[2])) :
     l \in EyeShapes, r \in EyeShapes, v \in EyeVectors}

InitMetrics ==
  /\ InitComponent
  /\ fitCall = NoCall
  /\ heap = NoCall
  /\ \E landmarks \in MetricsLandmarks :
       alignCall = [kind |-> "metrics", landmarks |-> landmarks, result |-> NoCall]

CallMetrics ==
  /\ alignCall.kind = "metrics"
  /\ alignCall' = [alignCall EXCEPT
        !.kind = "measured", !.result = calculateEyeMetrics(alignCall.landmarks)]
  /\ lastFile' = NoCall
  /\ UNCHANGED <<images, isLoading, error, processedWithZoom, settings, exportState,
                 loaders, uploads, reprocs, pendingRender, revoked, nextFile,
                 nReprocess, fitCall, heap>>

NextMetrics == CallMetrics

SpecMetrics == InitMetrics /\ [][NextMetrics]_vars

-----------------------------------------------------------------------------
\* generateGif and generateVideo called as handleGenerate calls them, also when
\* the sequence has no valid frame (the Generate button is then disabled)

\* the call of an export function
GenerateStep(fn, valid) == [kind |-> "generate", fn |-> fn, valid |-> valid]

GenerateCalled(ok) ==
  /\ ~isGeneratingGif /\ ~isGeneratingVideo
  /\ IF exportFormat = "gif"
     THEN /\ ok
          /\ generateGif(exportResolution)
          /\ UNCHANGED <<isGeneratingVideo, videoProgress, video>>
     ELSE /\ generateVideo(exportResolution, ok)
          /\ UNCHANGED <<isGeneratingGif, gifProgress, gif>>
  /\ lastFile' = GenerateStep(IF exportFormat = "gif" THEN "generateGif" ELSE "generateVideo",
                              Len(ValidImages(images)))
  /\ UNCHANGED <<images, isLoading, processedWithZoom, settings, loaders, uploads,
                 reprocs, pendingRender, revoked, nextFile, nReprocess, alignCall, fitCall,
                 heap>>

InitGenerate ==
  \E answers \in Batches \cup {<<NoFace, DetectorThrows>>}, ratio \in AspectRatios :
    AfterUpload(answers, 140, ratio)

NextGenerate ==
  \/ \E f \in {"gif", "video"} : setExportFormat(f)
  \/ \E res \in ExportResolutions : setExportResolution(res)
  \/ \E ok \in BOOLEAN : GenerateCalled(ok)
  \/ GifFinished
  \/ renderFrame
  \/ RecorderStopped
  \/ \E i \in 1..Len(images) : removeImage(images[i].id)

SpecGenerate == InitGenerate /\ [][NextGenerate]_vars

-----------------------------------------------------------------------------
\* lib/faceapi: loadFaceApiModels called on its own, by callers that may
\* overlap; each call awaits the loads of the five nets together

\* calls of loadFaceApiModels in one run
MaxLoadCalls == 2

Nets ==
  {"tinyFaceDetector", "faceLandmark68Net", "faceRecognitionNet", "faceExpressionNet",
   "ssdMobilenetv1"}

\* a call: not made, suspended at the await with some nets loaded, returned,
\* or ended by throwing the error of a load
LoadCall(state, loaded) == [state |-> state, loaded |-> loaded]

LoadCallSteps(calls) ==
  /\ lastFile' = NoCall
  /\ alignCall' = [alignCall EXCEPT !.calls = calls]
  /\ UNCHANGED <<images, isLoading, error, processedWithZoom, settings, exportState,
                 isModelsLoading, isOpenCVLoading, isOpenCVLoaded, uploads, reprocs,
                 pendingRender, revoked, nextFile, nReprocess, fitCall, heap>>

\* loadFaceApiModels up to its await
loadFaceApiModels(c) ==
  /\ alignCall.calls[c].state = "idle"
  /\ IF modelsLoaded
     THEN LoadCallSteps([alignCall.calls EXCEPT ![c] = LoadCall("returned", {})])
     ELSE LoadCallSteps([alignCall.calls EXCEPT ![c] = LoadCall("pending", {})])
  /\ UNCHANGED modelsLoaded

\* a net loaded for a call that also sets the flag
NetLoadedSettingFlag(c, net) ==
  /\ alignCall.calls[c].state = "pending"
  /\ net \notin alignCall.calls[c].loaded
  /\ LoadCallSteps([alignCall.calls EXCEPT ![c].loaded = @ \cup {net}])
  /\ modelsLoaded' = TRUE

\* loadFromUri of one net resolves
NetLoaded(c, net) ==
  /\ alignCall.calls[c].state = "pending"
  /\ net \notin alignCall.calls[c].loaded
  /\ LoadCallSteps([alignCall.calls EXCEPT ![c].loaded = @ \cup {net}])
  /\ UNCHANGED modelsLoaded

\* loadFromUri of one net rejects: Promise.all rejects, the catch block logs
\* the error and throws it again
NetFailed(c, net) ==
  /\ alignCall.calls[c].state = "pending"
  /\ net \notin alignCall.calls[c].loaded
  /\ LoadCallSteps([alignCall.calls EXCEPT ![c] = LoadCall("thrown", {})])
  /\ UNCHANGED modelsLoaded

\* Promise.all resolves: the flag is set and the call returns
LoadsResolved(c) ==
  /\ alignCall.calls[c].state = "pending"
  /\ alignCall.calls[c].loaded = Nets
  /\ LoadCallSteps([alignCall.calls EXCEPT ![c].state = "returned"])
  /\ modelsLoaded' = TRUE

InitLoad ==
  /\ InitComponent
  /\ fitCall = NoCall
  /\ heap = NoCall
  /\ alignCall = [kind |-> "loads", calls |-> [c \in 1..MaxLoadCalls |-> LoadCall("idle", {})]]

NextLoad ==
  \/ \E c \in 1..MaxLoadCalls : loadFaceApiModels(c)
  \/ \E c \in 1..MaxLoadCalls, net \in Nets : NetLoaded(c, net)
  \/ \E c \in 1..MaxLoadCalls, net \in Nets : NetFailed(c, net)
  \/ \E c \in 1..MaxLoadCalls : LoadsResolved(c)

SpecLoad == InitLoad /\ [][NextLoad]_vars

-----------------------------------------------------------------------------
(* Properties of alignFaceOnCanvas (SpecAlign) *)

\* the call has returned a canvas
AlignReturned == alignCall.kind = "returned" /\ ~IsThrown(alignCall.result)

\* the eye centres of the call's landmarks, read off the landmark points
CallLeftEye == EyeCenter(alignCall.landmarks.leftEye)

CallRightEye == EyeCenter(alignCall.landmarks.rightEye)

CallMidpoint == CenterPoint(CallLeftEye, CallRightEye)

\* where the drawn image's eye centres and their midpoint land on the canvas
LandedLeftEye == Apply(alignCall.result.transform, CallLeftEye)

LandedRightEye == Apply(alignCall.result.transform, CallRightEye)

LandedMidpoint == Apply(alignCall.result.transform, CallMidpoint)

\* the option, or the given value when the option was left out
OptionOr(option, value) == IF option = Undefined THEN value ELSE option

\* C1: when the two eye centres differ and canvasSize, targetEyeDistance and
\* scaleFactor are positive, the transformation under which alignFaceOnCanvas
\* draws the image sends the eye midpoint to (canvasSize/2, targetEyeY) and
\* both eye centres onto the line y = targetEyeY, targetEyeDistance *
\* scaleFactor apart with the right eye on the right, whatever the source
\* eye distance or tilt.
C1_EyesLandOnTarget ==
  LET o == alignCall.options
      canvasSize == OptionOr(o.canvasSize, Num(500))
      targetEyeDistance == OptionOr(o.targetEyeDistance, Num(140))
      targetEyeY == OptionOr(o.targetEyeY, NumMul(canvasSize, Frac(2, 5)))
      scaleFactor == OptionOr(o.scaleFactor, Num(1))
  IN (/\ AlignReturned
      /\ CallLeftEye # CallRightEye
      /\ NumPos(canvasSize) /\ NumPos(targetEyeDistance) /\ NumPos(scaleFactor))
     => /\ LandedMidpoint = [x |-> NumDiv(canvasSize, Num(2)), y |-> targetEyeY]
        /\ LandedLeftEye.y = targetEyeY
        /\ LandedRightEye.y = targetEyeY
        /\ NumSub(LandedRightEye.x, LandedLeftEye.x)
             = NumMul(targetEyeDistance, scaleFactor)

\* the example of C1: eye centres (100,200) and (200,200) drawn with canvasSize
\* 500, targetEyeDistance 140, targetEyeY 200, scaleFactor 1 land at (180,200)
\* and (320,200)
C1_Witness ==
  /\ AlignReturned
  /\ CallLeftEye = Pt(Num(100), Num(200))
  /\ CallRightEye = Pt(Num(200), Num(200))
  /\ alignCall.options = AlignFaceOptions(Num(500), Num(140), Num(200), Num(1))
  /\ LandedLeftEye = Pt(Num(180), Num(200))
  /\ LandedRightEye = Pt(Num(320), Num(200))

\* C2: a call of alignFaceOnCanvas with landmarks whose two eye centres
\* coincide (eyeDistance = 0) fails with an error and returns no canvas.
C2_CoincidentEyesFail ==
  (alignCall.kind = "returned" /\ CallLeftEye = CallRightEye)
    => IsThrown(alignCall.result)

\* C3: a call of alignFaceOnCanvas with a non-positive canvasSize,
\* targetEyeDistance or scaleFactor fails with an error and returns no canvas.
C3_NonPositiveConfigFails ==
  LET o == alignCall.options
      supplied(option) == option # Undefined /\ ~NumPos(option)
  IN (/\ alignCall.kind = "returned"
      /\ \/ supplied(o.canvasSize)
         \/ supplied(o.targetEyeDistance)
         \/ supplied(o.scaleFactor))
     => IsThrown(alignCall.result)

\* C4: an omitted canvasSize is 500, an omitted targetEyeDistance 140, an
\* omitted scaleFactor 1 and an omitted targetEyeY 0.4 times the canvasSize in
\* effect, and a supplied option is used as supplied: the canvas returned was
\* assigned that canvasSize as width and height, the eye midpoint is drawn at
\* (canvasSize/2, targetEyeY) and, when the eye centres differ, the right eye
\* is drawn targetEyeDistance * scaleFactor to the right of the left eye.
C4_DefaultsOnlyForOmitted ==
  LET o == alignCall.options
      canvasSize == OptionOr(o.canvasSize, Num(500))
      targetEyeDistance == OptionOr(o.targetEyeDistance, Num(140))
      targetEyeY == OptionOr(o.targetEyeY, NumMul(canvasSize, Frac(2, 5)))
      scaleFactor == OptionOr(o.scaleFactor, Num(1))
  IN AlignReturned
     => /\ alignCall.result.width = canvasSize
        /\ alignCall.result.height = canvasSize
        /\ LandedMidpoint = [x |-> NumDiv(canvasSize, Num(2)), y |-> targetEyeY]
        /\ CallLeftEye # CallRightEye
             => NumSub(LandedRightEye.x, LandedLeftEye.x)
                  = NumMul(targetEyeDistance, scaleFactor)

\* a call that supplies canvasSize 400 and nothing else: the canvas is 400
\* wide, the eye midpoint is drawn at (200, 160), the eyes 140 apart
C4_Witness ==
  /\ AlignReturned
  /\ alignCall.options = AlignFaceOptions(Num(400), Undefined, Undefined, Undefined)
  /\ CallLeftEye # CallRightEye
  /\ alignCall.result.width = Num(400)
  /\ LandedMidpoint = Pt(Num(200), Num(160))
  /\ NumSub(LandedRightEye.x, LandedLeftEye.x) = Num(140)

-----------------------------------------------------------------------------
(* Properties of the component *)

\* a frame with a raster that is not marked as failed
Successful(img) == img.alignedCanvas # Null /\ ~img.hasError

\* a frame marked as failed: no raster and a reason text
FailureMarked(img) == img.hasError /\ img.alignedCanvas = Null /\ img.errorMessage # ""

\* the picture of the file step fails: loading threw, or in Face Mode the
\* detector threw, was not reached or found no face
FileFails(f, product) == f.load = "error" \/ (~product /\ f.detector.kind # "face")

\* the step in which the upload u goes through one file
UploadStepOf(u) ==
  LET k == u.count - u.left
      f == lastFile'
      entryOf(e) == /\ e.originalUrl = u.url
                    /\ IF FileFails(f, u.isProductMode) THEN FailureMarked(e)
                       ELSE Successful(e)
  IN /\ f.kind = "file" /\ f.caller = "upload" /\ f.url = u.url
     /\ Len(u.newImages) = k - 1
     /\ IF u.left > 0
        THEN /\ images' = images
             /\ \E v \in uploads' \ uploads :
                  /\ v.count = u.count /\ v.left = u.left - 1
                  /\ Len(v.newImages) = k
                  /\ SubSeq(v.newImages, 1, k - 1) = u.newImages
                  /\ entryOf(v.newImages[k])
        ELSE /\ Len(images') = Len(images) + u.count
             /\ SubSeq(images', 1, Len(images)) = images
             /\ SubSeq(images', Len(images) + 1, Len(images) + k - 1) = u.newImages
             /\ entryOf(images'[Len(images) + k])

\* C5: an upload of N image files goes through every file, whatever happened
\* to the files before it, and makes one entry per file in the files' order:
\* failure-marked when loading or processing threw or the detector found no
\* face, successful otherwise; after the last file exactly these N entries
\* are appended to the sequence.
C5_BatchAddsOneEntryPerFile ==
  [][\A u \in uploads : u \notin uploads' => UploadStepOf(u)]_vars

\* three files were uploaded, the second without a face: three entries in
\* the files' order, the second failure-marked, the third successful
C5_Witness ==
  /\ uploads = {}
  /\ lastFile.kind = "file" /\ lastFile.caller = "upload" /\ lastFile.url = 3
  /\ Len(images) = 3
  /\ \A i \in 1..3 : images[i].originalUrl = i
  /\ Successful(images[1])
  /\ FailureMarked(images[2]) /\ images[2].errorMessage = "No face detected"
  /\ Successful(images[3])

\* the frames drawn for the video so far are the first successful frames of
\* the sequence the export started from, each shown for its frame duration
VideoFramesInOrder ==
  video # NoExport =>
    /\ Len(video.drawn) <= Len(video.validImages)
    /\ \A i \in 1..Len(video.drawn) :
         /\ video.drawn[i].canvas.image = video.validImages[i].alignedCanvas.image
         /\ video.drawn[i].delay = video.frameDuration

\* C6: the frames given to the GIF encoder, and those drawn for the video
\* recorder until it is stopped, are exactly the successful frames of the
\* sequence at the start of the export, in sequence order, each with the
\* frame duration selected at that moment; starting an export leaves the
\* sequence, failure-marked frames included, as it is.
C6_ExportsSuccessfulFramesInOrder ==
  [][LET valid == SelectSeq(images, Successful)
     IN /\ (~isGeneratingGif /\ isGeneratingGif') =>
             /\ images' = images
             /\ Len(gif'.frames) = Len(valid)
             /\ \A i \in 1..Len(valid) :
                  /\ gif'.frames[i].canvas.image = valid[i].alignedCanvas.image
                  /\ gif'.frames[i].delay = frameDuration
        /\ (~isGeneratingVideo /\ isGeneratingVideo') =>
             /\ images' = images
             /\ video'.validImages = valid
             /\ video'.frameDuration = frameDuration
        /\ VideoFramesInOrder'
        /\ (video # NoExport /\ video' = NoExport) =>
             Len(video.drawn) = Len(video.validImages)]_vars

\* a GIF export of a sequence of one failure-marked and one successful frame,
\* started after the frame duration was set to 200: one frame of 200 ms
C6_Witness ==
  /\ gif # NoExport
  /\ Len(images) = 2
  /\ FailureMarked(images[1]) /\ Successful(images[2])
  /\ Len(gif.frames) = 1
  /\ gif.frames[1].canvas.image = images[2].alignedCanvas.image
  /\ gif.frames[1].delay = 200

\* the step in which the reprocess r finishes one callback
ReprocessStepOf(r) == r \in reprocs /\ r \notin reprocs'

\* that step is the last one of r: Promise.all resolves
LastStepOf(r) == ReprocessStepOf(r) /\ \A v \in reprocs' : v.no # r.no

\* C7 as stated: no reprocess calls the detector.
C7_NoDetectorCallOnReprocess ==
  ~(lastFile.kind = "file" /\ lastFile.caller = "reprocess" /\ lastFile.detector # NoCall)

\* what the callback of r for the picture of the step just taken made of it
ReprocessResultOf(r) ==
  LET i == CHOOSE j \in r.todo : r.images[j].originalUrl = lastFile'.url
  IN IF LastStepOf(r) THEN images'[i]
     ELSE (CHOOSE v \in reprocs' : v.no = r.no).results[i]

\* C7, amended: in Face Mode a reprocess loads the original picture of each
\* frame that is not failure-marked and calls the detector on it again; the
\* frame is re-aligned with the landmarks which that call returns, and is
\* kept as it was when the picture does not load or the call throws or finds
\* no face.
C7_ReprocessDetectsAgain ==
  [][\A r \in reprocs : (ReprocessStepOf(r) /\ ~r.isProductMode) =>
       LET f == lastFile'
           i == CHOOSE j \in r.todo : r.images[j].originalUrl = f.url
           dims == getCanvasDimensions(r.aspectRatio, 500)
       IN /\ f.kind = "file" /\ f.caller = "reprocess"
          /\ \E j \in r.todo : r.images[j].originalUrl = f.url
          /\ (f.load = "image" /\ modelsLoaded) => f.detector # NoCall
          /\ IF f.load = "image" /\ f.detector.kind = "face"
             THEN /\ Successful(ReprocessResultOf(r))
                  /\ \E size \in ImageSizes :
                       ReprocessResultOf(r).alignedCanvas =
                         FinalCanvas(alignFaceOnCanvas(Image(f.url, size),
                                       f.detector.landmarks,
                                       ComponentAlignOptions(r.useZoom), TRUE), dims)
                  /\ ReprocessResultOf(r).angle =
                       ToDegrees(calculateEyeMetrics(f.detector.landmarks).angle)
             ELSE ReprocessResultOf(r) = r.images[i]]_vars

\* the first picture was uploaded with tilted eyes; a reprocess detected it
\* again, got coincident eye centres and aligned the frame with them
C7_Witness ==
  /\ reprocs = {}
  /\ lastFile.kind = "file" /\ lastFile.caller = "reprocess" /\ lastFile.url = 1
  /\ lastFile.detector = Face(LmCoincident)
  /\ Len(images) >= 1
  /\ images[1].originalUrl = 1
  /\ images[1].id # <<1, 0>>
  /\ images[1].angle = ToDegrees(calculateEyeMetrics(LmCoincident).angle)

\* C8: a reprocess leaves every failure-marked frame of the sequence it was
\* called on exactly as it was and at the same position, in the results it
\* collects and in the sequence it sets.
C8_FailedFramesUntouched ==
  [][/\ \A r \in reprocs' : \A i \in 1..Len(r.images) :
          r.images[i].hasError => (r.results[i] = r.images[i] /\ i \notin r.todo)
     /\ \A r \in reprocs : LastStepOf(r) =>
          /\ Len(images') = Len(r.images)
          /\ \A i \in 1..Len(r.images) :
               r.images[i].hasError => images'[i] = r.images[i]
     /\ nReprocess' # nReprocess =>
          \A i \in 1..Len(images) :
            images[i].hasError => (Len(images') >= i /\ images'[i] = images[i])]_vars

\* a reprocess of a failure-marked frame followed by a successful one has
\* finished: the first is as uploaded, the second was re-aligned
C8_Witness ==
  /\ reprocs = {}
  /\ lastFile.kind = "file" /\ lastFile.caller = "reprocess"
  /\ Len(images) = 2
  /\ images[1] = FailedImage(<<1, 0>>, 1, "No face detected")
  /\ Successful(images[2]) /\ images[2].id # <<2, 0>>

\* C9: the results a reprocess collects, and the sequence it sets when its
\* last callback has finished, have the length of the sequence it was called
\* on and hold at each position a frame of the same source picture, in
\* whatever order the callbacks finish.
C9_ReprocessKeepsPositions ==
  [][/\ \A r \in reprocs' :
          /\ Len(r.results) = Len(r.images)
          /\ \A i \in 1..Len(r.images) :
               r.results[i].originalUrl = r.images[i].originalUrl
     /\ \A r \in reprocs : LastStepOf(r) =>
          /\ Len(images') = Len(r.images)
          /\ \A i \in 1..Len(r.images) :
               images'[i].originalUrl = r.images[i].originalUrl
     /\ nReprocess' # nReprocess =>
          /\ Len(images') = Len(images)
          /\ \A i \in 1..Len(images) : images'[i].originalUrl = images[i].originalUrl]_vars

\* one reprocess re-aligned both frames of a sequence, the second frame
\* first: the frames are in their places
C9_Witness ==
  /\ reprocs = {}
  /\ lastFile.kind = "file" /\ lastFile.caller = "reprocess" /\ lastFile.url = 1
  /\ Len(images) = 2
  /\ images[1].originalUrl = 1 /\ images[2].originalUrl = 2
  /\ images[1].id[2] >= 1 /\ images[2].id[2] = images[1].id[2]

\* C10: a reprocess that finishes when every reprocess requested after it
\* has already finished, and that was requested with another zoom level than
\* the one requested last, changes neither the sequence nor the recorded
\* zoom level.
C10_OlderNeverOverwritesNewer ==
  [][\A r \in reprocs :
       (/\ LastStepOf(r)
        /\ r.no < nReprocess
        /\ \A q \in reprocs : q.no <= r.no
        /\ r.useZoom # zoomLevel)
       => (images' = images /\ processedWithZoom' = processedWithZoom)]_vars

-----------------------------------------------------------------------------
(* Properties of the aspect ratio, the zoom level and the rasters *)

\* the frame was made by the reprocess with that number
MadeBy(img, no) == img.id[2] = no

\* the width and height of the frame's raster are those of the aspect ratio
HasDimensionsOf(img, ratio) ==
  LET dims == getCanvasDimensions(ratio, BaseSize)
  IN /\ img.alignedCanvas.width = Num(dims.width)
     /\ img.alignedCanvas.height = Num(dims.height)

\* C11: when the reprocess started by handleAspectRatioChange(r) has finished,
\* every frame it re-rendered has the canvas dimensions of the aspect ratio r
\* that is now selected.
C11_RatioChangeRendersNewRatio ==
  [][\A r \in reprocs : LastStepOf(r) =>
       \A i \in 1..Len(images') :
         (MadeBy(images'[i], r.no) /\ Successful(images'[i]))
           => HasDimensionsOf(images'[i], aspectRatio')]_vars

\* the frame's raster is what aligning its picture to an eye distance of
\* `zoom` on a 500 x 500 canvas and centring that in the canvas of the aspect
\* ratio gives, for some landmarks the detector may return.  (For landmarks
\* whose eye centres coincide the zoom level has no effect on the raster.)
RenderedAt(img, zoom, ratio) ==
  \E l \in SpecLandmarks, size \in ImageSizes :
    img.alignedCanvas =
      FinalCanvas(alignFaceOnCanvas(Image(img.originalUrl, size), l,
                    AlignFaceOptions(Num(500), Num(zoom), Undefined, Undefined), TRUE),
                  getCanvasDimensions(ratio, 500))

RenderedAtZoom(img, zoom) == \E ratio \in AspectRatios : RenderedAt(img, zoom, ratio)

\* the step in which the upload u finishes its last file
UploadCompletes(u) == u \in uploads /\ u.left = 0 /\ u \notin uploads'

C13_ZoomChangeStartsNoReprocess ==
  [][(zoomLevel' # zoomLevel /\ Len(images) > 0) =>
       /\ nReprocess' = nReprocess
       /\ reprocs' = reprocs
       /\ images' = images
       /\ processedWithZoom' = processedWithZoom]_vars

\* C14: in Face Mode, whenever no upload and no reprocess is in flight, every
\* successful frame of the sequence was rendered at the recorded
\* processedWithZoom, and all successful frames have the canvas dimensions of
\* one and the same aspect ratio.
C14_FramesShareZoomAndRatio ==
  (uploads = {} /\ reprocs = {} /\ ~isProductMode) =>
    /\ \A i \in 1..Len(images) :
         Successful(images[i]) => RenderedAtZoom(images[i], processedWithZoom)
    /\ \E ratio \in AspectRatios :
         \A i \in 1..Len(images) :
           Successful(images[i]) => HasDimensionsOf(images[i], ratio)

\* C15: a step that renders a frame or calls alignFaceOnCanvas allocates at
\* least one new object and leaves every object that existed before (the
\* replaced raster, the source picture, the rasters made earlier) holding what
\* it held; a frame that now refers to another raster refers to a new object,
\* and the picture loaded for it is still that picture after the step
C15_RastersAreFresh ==
  [][(heap # NoCall /\ heap' # heap) =>
       /\ Len(heap'.objects) > Len(heap.objects)
       /\ \A id \in 1..Len(heap.objects) : heap'.objects[id] = heap.objects[id]
       /\ \A i \in 1..Len(heap.frames) :
            heap'.frames[i] # heap.frames[i] => heap'.frames[i] > Len(heap.objects)
       /\ \A i \in (Len(heap.frames) + 1)..Len(heap'.frames) :
            heap'.frames[i] > Len(heap.objects)
       /\ heap'.frames # heap.frames =>
            heap'.objects[Len(heap.objects) + 1].kind = "image"]_vars

\* the first frame was reprocessed at another zoom level: it refers to the
\* sixth object while the third, the raster it replaced, still holds the raster
\* of the upload
C15_Witness ==
  /\ heap # NoCall
  /\ heap.frames = <<6>>
  /\ Len(heap.objects) = 6
  /\ heap.objects[3].kind = "canvas"
  /\ heap.objects[6].kind = "canvas"
  /\ heap.objects[3] # heap.objects[6]
  /\ heap.objects[1] = heap.objects[4]

\* img is what rendering its picture with these landmarks at this zoom level
\* and aspect ratio gives: raster, success flag and angle
IsRenderingOf(img, landmarks, zoom, ratio) ==
  /\ Successful(img)
  /\ \E size \in ImageSizes :
       img.alignedCanvas =
         FinalCanvas(alignFaceOnCanvas(Image(img.originalUrl, size), landmarks,
                       AlignFaceOptions(Num(500), Num(zoom), Undefined, Undefined), TRUE),
                     getCanvasDimensions(ratio, 500))
  /\ img.angle = ToDegrees(calculateEyeMetrics(landmarks).angle)

Complete(e) == Successful(e) \/ FailureMarked(e)

\* C17: the sequence changes only in the step in which an upload has made its
\* last entry, which appends the entries of the batch after the entries that
\* were there, and in the step in which a reprocess has made its last result,
\* which sets the results; every entry of the sequence is whole, and no entry
\* that an upload or a reprocess still in flight has made is in the sequence.
C17_SequenceChangesByWholeSteps ==
  [][/\ \A i \in 1..Len(images') : Complete(images'[i])
     /\ images' # images =>
          \/ \E u \in uploads :
               /\ UploadCompletes(u)
               /\ Len(images') = Len(images) + u.count
               /\ SubSeq(images', 1, Len(images)) = images
          \/ \E r \in reprocs :
               /\ LastStepOf(r)
               /\ Len(images') = Len(r.images)
               /\ \A i \in 1..Len(images') :
                    images'[i] = r.images[i] \/ MadeBy(images'[i], r.no)
     /\ \A v \in uploads' : \A k \in 1..Len(v.newImages) : \A i \in 1..Len(images') :
          images'[i].id # v.newImages[k].id
     /\ \A v \in reprocs' : \A i \in 1..Len(images') : ~MadeBy(images'[i], v.no)]_vars

\* two more files were uploaded to the first frame and a reprocess is under
\* way: it has a new frame among its results while the sequence still holds
\* the three entries it was called on
C17_Witness ==
  /\ Len(images) = 3
  /\ \A i \in 1..3 : images[i].id[2] = 0
  /\ \E r \in reprocs :
       /\ r.todo # {}
       /\ \E i \in 1..Len(r.results) : MadeBy(r.results[i], r.no)

\* C18: when the GIF encoder has failed after the export was started, an
\* export error is shown and isGeneratingGif is false again.
C18_EncoderFailureResetsExport ==
  (gif # NoExport /\ gif.kind = "failed") => (~isGeneratingGif /\ error # "")

\* C19: every raster given to the GIF encoder has the width and the height of
\* the export, which the encoder was created with.
C19_GifRastersHaveTargetSize ==
  gif # NoExport =>
    \A i \in 1..Len(gif.frames) :
      /\ gif.frames[i].canvas.width = Num(gif.width)
      /\ gif.frames[i].canvas.height = Num(gif.height)

\* a <= b for finite numbers
NumLe(a, b) == ~NumLt(b, a)

\* C20: a frame of sw x sh fitted into a canvas of tw x th is drawn as a
\* rectangle of sw*s x sh*s, where s is the smaller of tw/sw and th/sh: the
\* rectangle has the frame's aspect ratio, lies inside the canvas, spans the
\* whole width or the whole height, and has the same padding left and right
\* and the same padding above and below.
C20_FitKeepsRatioInsideCentred ==
  fitCall.kind = "returned" =>
    LET sw == Num(fitCall.source.width)
        sh == Num(fitCall.source.height)
        tw == Num(fitCall.target.width)
        th == Num(fitCall.target.height)
        rect == fitCall.result
        s == NumDiv(rect.width, sw)
        right == NumSub(tw, NumAdd(rect.x, rect.width))
        below == NumSub(th, NumAdd(rect.y, rect.height))
    IN /\ s = NumDiv(rect.height, sh)
       /\ NumLe(s, NumDiv(tw, sw)) /\ NumLe(s, NumDiv(th, sh))
       /\ s = NumDiv(tw, sw) \/ s = NumDiv(th, sh)
       /\ NumMul(rect.width, sh) = NumMul(rect.height, sw)
       /\ NumLe(Num(0), rect.x) /\ NumLe(Num(0), rect.y)
       /\ NumLe(Num(0), right) /\ NumLe(Num(0), below)
       /\ rect.width = tw \/ rect.height = th
       /\ rect.x = right /\ rect.y = below

\* a square frame of 500 x 500 was fitted into the 281 x 500 canvas of a 9:16
\* export: it is drawn 281 x 281, 109.5 below the top edge
C20_Witness ==
  /\ fitCall.kind = "returned"
  /\ fitCall.source = [width |-> 500, height |-> 500]
  /\ fitCall.target = [width |-> 281, height |-> 500]
  /\ fitCall.result = [x |-> Num(0), y |-> Frac(219, 2), width |-> Num(281),
                       height |-> Num(281)]

-----------------------------------------------------------------------------
\* Properties of the stored frames, the detector module and the eye metrics

\* where the eye centres of the landmarks and their midpoint land on a frame
FrameLeftEye(frame, landmarks) ==
  Apply(frame.alignedCanvas.transform, EyeCenter(landmarks.leftEye))

FrameRightEye(frame, landmarks) ==
  Apply(frame.alignedCanvas.transform, EyeCenter(landmarks.rightEye))

FrameMidpoint(frame, landmarks) ==
  Apply(frame.alignedCanvas.transform,
        CenterPoint(EyeCenter(landmarks.leftEye), EyeCenter(landmarks.rightEye)))

\* the frame holds the aligned square of its picture scaled to the smaller of
\* w and h and centred on the w x h canvas
HoldsCentredSquare(frame, landmarks, zoom, w, h) ==
  LET m == IF NumLt(h, w) THEN h ELSE w
      s == NumDiv(m, Num(500))
      square == alignFaceOnCanvas(Image(frame.originalUrl, UploadedSize), landmarks,
                  AlignFaceOptions(Num(500), Num(zoom), Undefined, Undefined), TRUE)
  IN /\ frame.alignedCanvas.width = w
     /\ frame.alignedCanvas.height = h
     /\ frame.alignedCanvas.transform =
          MatMul(Matrix(s, Num(0), Num(0), s, NumDiv(NumSub(w, m), Num(2)),
                        NumDiv(NumSub(h, m), Num(2))),
                 square.transform)

\* C21: for every aspect ratio, a frame stored by an upload or by a reprocess
\* holds the aligned square scaled to min(width, height) and centred, its eye
\* midpoint lies on the line x = width/2, and two frames rendered with the
\* same zoom level and aspect ratio have their eye centres at the same
\* positions.
C21_FramesCentredWithSameEyes ==
  alignCall.kind = "rendered" =>
    LET dims == getCanvasDimensions(alignCall.ratio, 500)
        w == Num(dims.width)
        h == Num(dims.height)
        first == alignCall.result[1]
        second == alignCall.result[2]
    IN /\ Successful(first) /\ Successful(second)
       /\ HoldsCentredSquare(first, alignCall.first, alignCall.zoom, w, h)
       /\ HoldsCentredSquare(second, alignCall.second, alignCall.zoom, w, h)
       /\ FrameMidpoint(first, alignCall.first).x = NumDiv(w, Num(2))
       /\ FrameMidpoint(second, alignCall.second).x = NumDiv(w, Num(2))
       /\ FrameLeftEye(first, alignCall.first) = FrameLeftEye(second, alignCall.second)
       /\ FrameRightEye(first, alignCall.first) = FrameRightEye(second, alignCall.second)

\* loadFaceApiModels has completed successfully
ModelsLoadSucceeded == ~isModelsLoading /\ error # "Failed to load face detection models"

NotLoadedError == Thrown("Face-api models not loaded. Call loadFaceApiModels() first.")

\* C22: a call of detectSingleFace or detectAllFaces made before
\* loadFaceApiModels has completed successfully throws the models-not-loaded
\* error and does not reach the detector; a call made afterwards reaches the
\* detector and does not throw that error.
C22_DetectionNeedsLoadedModels ==
  lastFile.kind = "detect" =>
    IF ModelsLoadSucceeded
    THEN lastFile.called /\ lastFile.result # NotLoadedError
    ELSE ~lastFile.called /\ lastFile.result = NotLoadedError

\* detectAllFaces was called while the models were still loading: it threw and
\* the detector was not called
C22_Witness ==
  /\ lastFile.kind = "detect"
  /\ lastFile.fn = "detectAllFaces"
  /\ isModelsLoading
  /\ ~lastFile.called
  /\ lastFile.result = NotLoadedError

\* the vector from the left to the right eye centre of measured metrics
EyeVectorX(m) == NumSub(m.rightEyeCenter.x, m.leftEyeCenter.x)
EyeVectorY(m) == NumSub(m.rightEyeCenter.y, m.leftEyeCenter.y)

\* C23: the angle returned by calculateEyeMetrics is in radians and is the
\* direction of the vector from the left to the right eye centre with y growing
\* downwards: it is 0 when the centres are level and the left one is to the
\* left, negative when the right centre is higher (smaller y) and positive when
\* it is lower.
C23_AngleIsDirectionYDown ==
  alignCall.kind = "measured" =>
    LET m == alignCall.result
        dx == EyeVectorX(m)
        dy == EyeVectorY(m)
    IN /\ m.angle.unit = "rad"
       /\ (dx[1] # 0 \/ dy[1] # 0) =>
            /\ NumMul(m.angle.cos, dy) = NumMul(m.angle.sin, dx)
            /\ Sign(m.angle.cos[1]) = Sign(dx[1])
            /\ Sign(m.angle.sin[1]) = Sign(dy[1])
       /\ (dy[1] = 0 /\ dx[1] > 0) => (m.angle.cos = Num(1) /\ m.angle.sin = Num(0))
       /\ dy[1] < 0 => m.angle.sin[1] < 0
       /\ dy[1] > 0 => m.angle.sin[1] > 0

\* metrics of landmarks whose right eye centre is higher than the left one: the
\* angle is negative
C23_Witness ==
  /\ alignCall.kind = "measured"
  /\ EyeVectorY(alignCall.result)[1] < 0
  /\ EyeVectorX(alignCall.result)[1] > 0
  /\ alignCall.result.angle.sin[1] < 0

\* the sum of one coordinate of the first n points
RECURSIVE CoordinateSum(_, _, _)
CoordinateSum(ps, n, c) ==
  IF n = 0 THEN 0 ELSE CoordinateSum(ps, n - 1, c) + (IF c = "x" THEN ps[n].x ELSE ps[n].y)

\* `centre` is the unweighted mean of the points
IsMeanOf(centre, ps) ==
  /\ NumMul(centre.x, Num(Len(ps))) = Num(CoordinateSum(ps, Len(ps), "x"))
  /\ NumMul(centre.y, Num(Len(ps))) = Num(CoordinateSum(ps, Len(ps), "y"))

\* C24: each eye centre returned by calculateEyeMetrics is the unweighted
\* arithmetic mean of the landmark points of that eye, and centerPoint is the
\* midpoint of the two eye centres.
C24_CentresAreMeans ==
  alignCall.kind = "measured" =>
    LET m == alignCall.result
    IN /\ IsMeanOf(m.leftEyeCenter, alignCall.landmarks.leftEye)
       /\ IsMeanOf(m.rightEyeCenter, alignCall.landmarks.rightEye)
       /\ NumMul(m.centerPoint.x, Num(2)) = NumAdd(m.leftEyeCenter.x, m.rightEyeCenter.x)
       /\ NumMul(m.centerPoint.y, Num(2)) = NumAdd(m.leftEyeCenter.y, m.rightEyeCenter.y)

\* metrics of an eye of three points whose mean (1/3, 1/3) is not the centre
\* (1/2, 1/2) of the box around them
C24_Witness ==
  /\ alignCall.kind = "measured"
  /\ alignCall.landmarks = LmThirds
  /\ alignCall.result.leftEyeCenter = [x |-> Frac(1, 3), y |-> Frac(1, 3)]
  /\ alignCall.result.centerPoint = [x |-> Frac(11, 6), y |-> Frac(7, 3)]

-----------------------------------------------------------------------------
\* Properties of reprocessing, removal and export that the component keeps

\* the results of the reprocess r after the step it has just taken
ResultsAfterStep(r) ==
  IF LastStepOf(r) THEN images' ELSE (CHOOSE v \in reprocs' : v.no = r.no).results

\* the callbacks of r that are still to finish after that step
TodoAfterStep(r) ==
  IF LastStepOf(r) THEN {} ELSE (CHOOSE v \in reprocs' : v.no = r.no).todo

\* C25: when the picture of a successful frame fails to load, or no face is
\* detected in it, during a reprocess, the callback returns the frame as the
\* reprocess found it (same raster, same id, successful); the callbacks of the
\* other frames still run; and no reprocess replaces a successful frame by a
\* failed one.
C25_FailedReprocessKeepsFrame ==
  [][/\ \A r \in reprocs' : \A i \in 1..Len(r.images) :
          Successful(r.images[i]) => Successful(r.results[i])
     /\ \A r \in reprocs : ReprocessStepOf(r) =>
          \A i \in r.todo \ TodoAfterStep(r) :
            /\ TodoAfterStep(r) = r.todo \ {i}
            /\ Successful(r.images[i])
            /\ FileFails(lastFile', r.isProductMode) =>
                 ResultsAfterStep(r)[i] = r.images[i]
            /\ \A j \in 1..Len(r.images) : j # i =>
                 ResultsAfterStep(r)[j] = r.results[j]
     /\ \A r \in reprocs : LastStepOf(r) =>
          /\ Len(images') = Len(r.images)
          /\ \A i \in 1..Len(r.images) :
               Successful(r.images[i]) => Successful(images'[i])]_vars

\* a reprocess of two successful frames has finished; the second frame was
\* rendered again, then no face was found in the first: the first is the frame
\* that was uploaded
C25_Witness ==
  /\ reprocs = {}
  /\ lastFile.kind = "file" /\ lastFile.caller = "reprocess"
  /\ lastFile.url = 1 /\ lastFile.detector = NoFace
  /\ Len(images) = 2
  /\ Successful(images[1]) /\ images[1].id = <<1, 0>>
  /\ Successful(images[2]) /\ images[2].id # <<2, 0>>

\* C26: in a session in which nothing is uploaded, a step never brings into the
\* sequence a frame of a source picture that is not in it: the frames removed
\* with removeImage or clearAll stay removed, also when a reprocess that was
\* started before the removal finishes after it.
C26_RemovedFramesStayRemoved ==
  [][OriginalUrls(images') \subseteq OriginalUrls(images)]_vars

\* C27: the object URL of the source picture of every frame in the sequence
\* has not been revoked, so that a reprocess can load the picture again.
C27_SequenceUrlsNotRevoked ==
  \A i \in 1..Len(images) : images[i].originalUrl \notin revoked

\* the step starts an export: a GIF encoding or a video recording
ExportStarts ==
  \/ ~isGeneratingGif /\ isGeneratingGif'
  \/ ~isGeneratingVideo /\ isGeneratingVideo'

\* C28: no export starts while an upload or a reprocess is in flight, that is
\* while isLoading is true.
C28_NoExportStartsWhileLoading ==
  [][ExportStarts => ~isLoading]_vars

\* C29: at most one export is in flight: isGeneratingGif and isGeneratingVideo
\* are never both true, an export starts only when neither flag is set and no
\* encoder or recorder is running, and the flag of a running export stays set
\* until it has finished.
C29_OneExportAtATime ==
  [][/\ ~(isGeneratingGif' /\ isGeneratingVideo')
     /\ ExportStarts =>
          /\ ~isGeneratingGif /\ ~isGeneratingVideo
          /\ gif = NoExport /\ video = NoExport
     /\ gif' # NoExport => isGeneratingGif'
     /\ video' # NoExport => isGeneratingVideo'
     /\ (gif # NoExport /\ gif' # NoExport) => gif'.frames = gif.frames
     /\ (video # NoExport /\ video' # NoExport) =>
          video'.validImages = video.validImages]_vars

\* a video recording has drawn its second frame: no GIF export is running
C29_Witness ==
  /\ isGeneratingVideo /\ video # NoExport
  /\ Len(video.drawn) = 2
  /\ ~isGeneratingGif /\ gif = NoExport

\* the entry is marked as failed exactly when it has no raster
MarkedIffNoRaster(img) == img.hasError <=> img.alignedCanvas = Null

\* C30: every frame entry, in the sequence, in the entries an upload has made
\* and in the results a reprocess is collecting, has hasError true exactly
\* when its raster is absent; so the number of frames shown (hasError false)
\* is the number of frames an export encodes (raster present and hasError
\* false).
C30_ErrorMarkIffNoRaster ==
  /\ \A i \in 1..Len(images) : MarkedIffNoRaster(images[i])
  /\ \A u \in uploads : \A i \in 1..Len(u.newImages) : MarkedIffNoRaster(u.newImages[i])
  /\ \A r \in reprocs : \A i \in 1..Len(r.results) : MarkedIffNoRaster(r.results[i])
  /\ ValidImagesCount(images) = Len(ValidImages(images))

\* a sequence of a successful and a failure-marked frame while a reprocess is
\* in flight: one frame is shown as valid
C30_Witness ==
  /\ Len(images) = 2
  /\ Successful(images[1]) /\ FailureMarked(images[2])
  /\ reprocs # {}
  /\ ValidImagesCount(images) = 1

-----------------------------------------------------------------------------
\* Properties of uploads, of empty exports, of the video export, of
\* termination and of loading the models

\* the step in which the upload u appends its entries to the sequence
LastUploadStepOf(u) == u \in uploads /\ u.left = 0 /\ u \notin uploads'

\* C31: the step in which an upload appends its batch leaves every frame that
\* is in the sequence at that moment unchanged and at its position and places
\* the entries of the batch after them, one per image file; until then the
\* upload does not change the sequence, whatever was removed meanwhile.
C31_UploadAppendsAfterExistingFrames ==
  [][\A u \in uploads :
       /\ LastUploadStepOf(u) =>
            /\ Len(images') = Len(images) + u.count
            /\ \A i \in 1..Len(images) : images'[i] = images[i]
            /\ \A k \in 1..Len(u.newImages) : images'[Len(images) + k] = u.newImages[k]
            /\ images'[Len(images')].originalUrl = u.url
       /\ (lastFile'.kind = "file" /\ ~LastUploadStepOf(u)) => images' = images]_vars

\* a second batch of one file was uploaded after a batch of two of which the
\* first frame was removed: the frame that was left comes first
C31_Witness ==
  /\ uploads = {}
  /\ lastFile.kind = "file" /\ lastFile.caller = "upload" /\ lastFile.url = 3
  /\ Len(images) = 2
  /\ images[1].originalUrl = 2
  /\ images[2].originalUrl = 3

\* C32: a call of generateGif or generateVideo made when the sequence has no
\* successful frame sets the error message and changes nothing else: no
\* encoder or recorder is made, and the flags and progress values of the
\* exports are as they were.
C32_EmptyExportOnlySetsError ==
  [][(lastFile'.kind = "generate" /\ lastFile'.valid = 0) =>
       /\ error' = (IF lastFile'.fn = "generateGif"
                    THEN "No valid aligned faces to create GIF"
                    ELSE "No valid aligned faces to create video")
       /\ exportState' = exportState
       /\ gif' = NoExport /\ video' = NoExport
       /\ images' = images
       /\ <<isLoading, processedWithZoom, settings, uploads, reprocs>>'
            = <<isLoading, processedWithZoom, settings, uploads, reprocs>>]_vars

\* generateVideo was called on a sequence of two failure-marked frames: the
\* message is shown and nothing is being recorded
C32_Witness ==
  /\ lastFile = GenerateStep("generateVideo", 0)
  /\ Len(images) = 2
  /\ error = "No valid aligned faces to create video"
  /\ ~isGeneratingVideo /\ video = NoExport

\* the files selected in the step, when it is a call of handleFileUpload
NoImageSelected ==
  \E files \in FileLists :
    Len(files) > 0 /\ SelectSeq(files, IsImageFile) = <<>> /\ handleFileUpload(files)

MixedSelected(files) ==
  SelectSeq(files, IsImageFile) # <<>> /\ handleFileUpload(files)

\* C33: handleFileUpload called with files none of which is an image sets the
\* error message and changes nothing else (the sequence, isLoading and
\* processedWithZoom are as they were, nothing is in flight that could call the
\* detector); called with a selection that holds an image file it starts an
\* upload of as many entries as there are image files.
C33_NoImageFileOnlySetsError ==
  [][/\ NoImageSelected =>
          /\ error' = "Please upload at least one image file"
          /\ images' = images
          /\ isLoading' = isLoading
          /\ processedWithZoom' = processedWithZoom
          /\ uploads' = uploads /\ nextFile' = nextFile
          /\ lastFile' = NoCall
     /\ \A files \in FileLists : MixedSelected(files) =>
          \E u \in uploads' \ uploads :
            /\ u.count = Cardinality({i \in 1..Len(files) : IsImageFile(files[i])})
            /\ u.newImages = <<>>]_vars

\* after a picture was uploaded, a selection without an image file was made:
\* the message is shown, the frame is there and nothing is loading
C33_Witness ==
  /\ error = "Please upload at least one image file"
  /\ Len(images) = 1
  /\ ~isLoading /\ uploads = {}
  /\ lastFile = NoCall

\* C34: a video export draws the successful frames of its snapshot one per
\* step, each once and in sequence order; the recorder is stopped only when
\* the last frame has been drawn; while the export runs the progress value
\* does not decrease, lies in 0..100 and is 100 once the last frame is drawn;
\* when the recorder has stopped, isGeneratingVideo is false.
C34_VideoDrawsEachFrameOnce ==
  [][/\ video' # NoExport =>
          /\ VideoFramesInOrder'
          /\ videoProgress' \in 0..100
          /\ Len(video'.drawn) = (IF video = NoExport THEN 1
                                  ELSE IF video.recorder = "recording"
                                          /\ video'.recorder = "recording"
                                          /\ video' # video
                                       THEN Len(video.drawn) + 1
                                       ELSE Len(video.drawn))
          /\ Len(video'.drawn) = Len(video'.validImages) => videoProgress' = 100
          /\ video'.recorder = "stopping" => Len(video'.drawn) = Len(video'.validImages)
     /\ (video # NoExport /\ video' # NoExport) =>
          /\ videoProgress' >= videoProgress
          /\ video'.validImages = video.validImages
          /\ \A i \in 1..Len(video.drawn) : video'.drawn[i] = video.drawn[i]
     /\ (video # NoExport /\ video' = NoExport) =>
          /\ video.recorder = "stopping"
          /\ Len(video.drawn) = Len(video.validImages)
          /\ ~isGeneratingVideo']_vars

\* a recording of two frames has drawn both: the progress is 100 and the
\* recorder is still running
C34_Witness ==
  /\ video # NoExport /\ isGeneratingVideo
  /\ Len(video.validImages) = 2 /\ Len(video.drawn) = 2
  /\ video.recorder = "recording"
  /\ videoProgress = 100

\* C35: when every image load and every detector call returns or fails, an
\* upload or reprocess that was started completes, whatever its pictures do,
\* and isLoading is false again.
C35_LoadingEnds ==
  /\ isLoading ~> ~isLoading
  /\ (uploads # {} \/ reprocs # {}) ~> (uploads = {} /\ reprocs = {} /\ ~isLoading)

\* an upload whose last picture failed to load has completed: nothing is in
\* flight and isLoading is false
C35_Witness ==
  /\ lastFile.kind = "file" /\ lastFile.caller = "upload" /\ lastFile.load = "error"
  /\ Len(images) = 2
  /\ FailureMarked(images[2])
  /\ uploads = {} /\ reprocs = {}
  /\ ~isLoading

\* the call c of loadFaceApiModels goes from one state to another in the step
LoadCallGoes(c, from, to) ==
  alignCall.calls[c].state = from /\ alignCall'.calls[c].state = to

\* C36: the models-loaded flag becomes true only in the step in which a call
\* of loadFaceApiModels has all five nets loaded and returns; a call of which a
\* load fails ends by throwing and does not set the flag; a call made when the
\* flag is true returns without loading a net; the flag never goes back to
\* false.
C36_FlagSetAfterAllModelsLoaded ==
  [][/\ (~modelsLoaded /\ modelsLoaded') =>
          \E c \in 1..MaxLoadCalls :
            LoadCallGoes(c, "pending", "returned") /\ alignCall.calls[c].loaded = Nets
     /\ \A c \in 1..MaxLoadCalls :
          /\ LoadCallGoes(c, "pending", "thrown") => modelsLoaded' = modelsLoaded
          /\ (modelsLoaded /\ alignCall.calls[c].state = "idle"
                /\ alignCall'.calls[c].state # "idle") =>
               alignCall'.calls[c] = LoadCall("returned", {})
          /\ alignCall.calls[c].state \in {"returned", "thrown"} =>
               alignCall'.calls[c] = alignCall.calls[c]
     /\ modelsLoaded => modelsLoaded']_vars

\* one call loaded the five nets and set the flag; the other call, made
\* before, ended with the error of a load: the flag is true
C36_Witness ==
  /\ alignCall.kind = "loads"
  /\ modelsLoaded
  /\ alignCall.calls[1] = LoadCall("returned", Nets)
  /\ alignCall.calls[2] = LoadCall("thrown", {})

=========================================================================
